---- MODULE Spec2Model ----
(***************************************************************************)
(* Confidential x402: the payment middleware (apps/hono-server), the       *)
(* facilitator service (apps/facilitator) and the verification and         *)
(* settlement functions of confidential-x402-core.                         *)
(*                                                                         *)
(* JSON objects are records; a field the object lacks is a field the       *)
(* record lacks.  Text fields that the code parses (timestamps, prices)    *)
(* are sequences of one-character strings.                                 *)
(***************************************************************************)
EXTENDS Integers, Sequences, FiniteSets, TLC

\* ------------------------------------------------------------------ bounds
\* clock readings run from 5 to MaxNow
MaxNow == 6
\* numeric texts of the payloads given to the codec have 1 to MaxTextLen digits
MaxTextLen == 2
\* decrypted transferred amounts run from 0 to MaxTransferred
MaxTransferred == 3
\* requests the middleware handles, concurrently
NumRequests == 1
\* callers of getFHEVMClient running concurrently
NumCallers == 2
\* requests carrying a payment that the middleware handles at the same time
NumRacers == 2
\* calls of getFHEVMClient each caller of the pool makes, one after another
MaxCalls == 2
\* calls of clearFHEVMCache
MaxClears == 1
\* balances and amounts run from 0 to BalanceSpread, and from
\* MAX_MINT_AMOUNT to MAX_MINT_AMOUNT + BalanceSpread
BalanceSpread == 2
\* the clock reading at which the client model starts
ClientEpoch == 600
\* seconds the client model lets pass after a header was created
MaxElapsed == 4
\* the short maxTimeoutSeconds of the requirements given to the client
ShortTimeout == 8

\* --------------------------------------------------------- program constants
\* part_004:31   MAX_MINT_AMOUNT = 10_000_000n
MAX_MINT_AMOUNT == 10000000
\* createPaymentHeader.ts:66   Date.now() / 1000 - 600
VALID_AFTER_LEEWAY == 600
\* fhevm.ts:164   validBefore < now + 6n
SAFETY_MARGIN == 6
\* middleware.ts:83   x402Version: 1
X402_VERSION == 1
\* middleware.ts:85   status of every rejection
PAYMENT_REQUIRED_STATUS == 402
\* middleware.ts:129  res.status >= 400
ERROR_STATUS_FLOOR == 400
\* middleware.ts:66   maxTimeoutSeconds default
DEFAULT_TIMEOUT == 300
\* network.ts:8    CHAIN_IDS.sepolia
SEPOLIA_CHAIN_ID == 11155111
\* network.ts:46   CHAIN_IDS.base
BASE_CHAIN_ID == 8453

Requests == 1..NumRequests

None == [none |-> TRUE]
IsNone(v) == "none" \in DOMAIN v
Has(o, f) == f \in DOMAIN o

\* ------------------------------------------------------------ text helpers
DigitChars == <<"0", "1", "2", "3", "4", "5", "6", "7", "8", "9">>
Digits == {DigitChars[i] : i \in 1..10}
DigitVal(c) == (CHOOSE i \in 1..10 : DigitChars[i] = c) - 1

IsDecimal(s) == \A i \in 1..Len(s) : s[i] \in Digits

RECURSIVE ParseDecimal(_)
ParseDecimal(s) ==
  IF s = <<>> THEN 0
  ELSE 10 * ParseDecimal(SubSeq(s, 1, Len(s) - 1)) + DigitVal(s[Len(s)])

\* BigInt(text): the empty text is 0n, decimal digits parse, anything else
\* raises SyntaxError
BigInt(s) ==
  IF IsDecimal(s) THEN [ok |-> TRUE, val |-> ParseDecimal(s)]
  ELSE [ok |-> FALSE, val |-> 0]

RECURSIVE ToDecimal(_)
\* bigint.toString()
ToDecimal(n) ==
  IF n < 10 THEN <<DigitChars[n + 1]>>
  ELSE Append(ToDecimal(n \div 10), DigitChars[(n % 10) + 1])

\* ---------------------------------------------------------------- addresses
ALICE == "0xa11ce"
BOB == "0xb0b"
PAYEE == "0xpayee"
PAYEE_UPPER == "0xPAYEE"
ASSET == "0xa55e7"
BAD_ADDRESS == "payee"

WellFormedAddresses == {ALICE, BOB, PAYEE, PAYEE_UPPER, ASSET}

\* viem isAddress(a, {strict: false})
isAddress(a) == a \in WellFormedAddresses

\* the checksummed spelling viem getAddress returns: one per 20-byte value
checksumAddress(a) == IF a = PAYEE_UPPER THEN PAYEE ELSE a

\* viem getAddress(a): raises InvalidAddressError on a malformed address
getAddress(a) ==
  IF isAddress(a) THEN [ok |-> TRUE, val |-> checksumAddress(a)]
  ELSE [ok |-> FALSE, val |-> a]

\* ----------------------------------------------------------------- networks
CHAIN_IDS == [sepolia |-> SEPOLIA_CHAIN_ID, base |-> BASE_CHAIN_ID]

\* getChainId(network): raises "Unknown network" when the table has no entry
getChainId(network) ==
  IF network \in DOMAIN CHAIN_IDS THEN [ok |-> TRUE, val |-> CHAIN_IDS[network]]
  ELSE [ok |-> FALSE, val |-> 0]

\* ---------------------------------------------------------------- signatures
\* signStructured / verifyStructured, symbolically: a signature is the
\* triple it authenticates.  Addresses enter the typed-data hash as 20-byte
\* values, so their spelling does not matter.
Message(from, to, handle, validAfter, validBefore, nonce) ==
  [from |-> checksumAddress(from), to |-> checksumAddress(to),
   encryptedValueHandle |-> handle, validAfter |-> validAfter,
   validBefore |-> validBefore, nonce |-> nonce]

Domain(name, version, chainId, contract) ==
  [name |-> name, version |-> version, chainId |-> chainId,
   verifyingContract |-> checksumAddress(contract)]

Sign(signer, domain, message) ==
  [signer |-> checksumAddress(signer), domain |-> domain, message |-> message]

MalformedSignature == [malformed |-> TRUE]

\* fault: the signer of the signature is not compared with the address
verifyTypedDataAnySigner(address, domain, message, signature) ==
  IF ~isAddress(address) \/ Has(signature, "malformed")
  THEN [ok |-> FALSE, val |-> FALSE]
  ELSE [ok |-> TRUE,
        val |-> signature.domain = domain /\ signature.message = message]

\* viem verifyTypedData: raises on a malformed address or signature,
\* otherwise answers whether the signature authenticates (domain, message)
\* for the address
verifyTypedData(address, domain, message, signature) ==
  IF ~isAddress(address) \/ Has(signature, "malformed")
  THEN [ok |-> FALSE, val |-> FALSE]
  ELSE [ok |-> TRUE, val |-> signature = Sign(address, domain, message)]

\* ------------------------------------------------------------------ routes
\* request URLs: the pathname as characters, and the query text
URL_WEATHER == [pathname |-> <<"/", "w">>, search |-> "?city=x"]
URL_HEALTH == [pathname |-> <<"/", "h">>, search |-> ""]
Urls == {URL_WEATHER, URL_HEALTH}

\* new URL(c.req.url).pathname
Pathname(url) == url.pathname

\* RouteConfig.config.errorMessages, when the route configures them
CustomErrorMessages ==
  [paymentRequired |-> "custom: payment required",
   invalidPayment |-> "custom: invalid payment",
   verificationFailed |-> "custom: verification failed",
   settlementFailed |-> "custom: settlement failed"]

\* the routes of MiddlewareOptions, in insertion order (index.ts:21-31).
\* The pattern is written "/w" for "/weather" and the price 2 for 1000, so
\* that decrypted amounts fall on both sides of it.
RoutesOf(errorMessages) ==
  << [pattern |-> <<"/", "w">>,
      price |-> <<"2">>,
      network |-> "sepolia",
      description |-> "Access to weather data",
      mimeType |-> "application/json",
      maxTimeoutSeconds |-> DEFAULT_TIMEOUT,
      errorMessages |-> errorMessages] >>

\* new RegExp("^" + pattern with * as .* and / escaped + "$").test(path)
RECURSIVE RegexTest(_, _)
RegexTest(pat, s) ==
  IF pat = <<>> THEN s = <<>>
  ELSE IF Head(pat) = "*"
    THEN RegexTest(Tail(pat), s) \/ (s # <<>> /\ RegexTest(pat, Tail(s)))
  ELSE IF Head(pat) = "."
    THEN s # <<>> /\ RegexTest(Tail(pat), Tail(s))
  ELSE s # <<>> /\ Head(s) = Head(pat) /\ RegexTest(Tail(pat), Tail(s))

\* fault: the last matching route is taken
MatchingRouteLast(routes, url) ==
  LET hits == {i \in 1..Len(routes) : RegexTest(routes[i].pattern, Pathname(url))}
  IN IF hits = {} THEN 0 ELSE CHOOSE i \in hits : \A j \in hits : i >= j

\* Object.entries(routes).find(...): index of the first matching route, 0 if none
MatchingRoute(routes, url) ==
  LET hits == {i \in 1..Len(routes) : RegexTest(routes[i].pattern, Pathname(url))}
  IN IF hits = {} THEN 0 ELSE CHOOSE i \in hits : \A j \in hits : i <= j

\* the message the route configures for a rejection, or the fallback
\* (errorMessages?.<which> || fallback)
ErrorMessage(routeConfig, which, fallback) ==
  IF Has(routeConfig.errorMessages, which)
  THEN routeConfig.errorMessages[which]
  ELSE fallback

\* fault: resource is the path of the request, without its query
BuildPaymentRequirementsForPath(routeConfig, url, payTo, contractAddress) ==
  [scheme |-> "exact-confidential",
   network |-> routeConfig.network,
   maxAmountRequired |-> routeConfig.price,
   resource |-> [url EXCEPT !.search = ""],
   description |-> routeConfig.description,
   mimeType |-> routeConfig.mimeType,
   payTo |-> payTo,
   maxTimeoutSeconds |-> routeConfig.maxTimeoutSeconds,
   asset |-> contractAddress,
   extra |-> [name |-> "ConfidentialUSD", version |-> "1"]]

\* middleware.ts:58-72
BuildPaymentRequirements(routeConfig, url, payTo, contractAddress) ==
  [scheme |-> "exact-confidential",
   network |-> routeConfig.network,
   maxAmountRequired |-> routeConfig.price,
   resource |-> url,
   description |-> routeConfig.description,
   mimeType |-> routeConfig.mimeType,
   payTo |-> payTo,
   maxTimeoutSeconds |-> routeConfig.maxTimeoutSeconds,
   asset |-> contractAddress,
   extra |-> [name |-> "ConfidentialUSD", version |-> "1"]]

\* ---------------------------------------------------------------- payloads
HANDLE == "0xhandle"
INPUT_PROOF == "0xproof"

Authorization(from, to, validAfter, validBefore, nonce) ==
  [from |-> from, to |-> to, encryptedValueHandle |-> HANDLE,
   inputProof |-> INPUT_PROOF, validAfter |-> validAfter,
   validBefore |-> validBefore, nonce |-> nonce]

\* the signing domain of the deployment (sepolia, the asset contract)
DeployedDomain == Domain("ConfidentialUSD", "1", SEPOLIA_CHAIN_ID, ASSET)

\* what a client signs for an authorization
SignatureFor(a) ==
  Sign(a.from, DeployedDomain,
       Message(a.from, a.to, a.encryptedValueHandle,
               BigInt(a.validAfter).val, BigInt(a.validBefore).val, a.nonce))

PaymentPayload(scheme, network, authorization, signature) ==
  [x402Version |-> X402_VERSION, scheme |-> scheme, network |-> network,
   payload |-> [signature |-> signature, authorization |-> authorization]]

Signed(a) == PaymentPayload("exact-confidential", "sepolia", a, SignatureFor(a))

AUTH_ALICE == Authorization(ALICE, PAYEE, <<"0">>, <<"2", "0">>, "0xn1")
AUTH_BOB == Authorization(BOB, PAYEE, <<"6">>, <<"2", "0">>, "0xn1")
AUTH_UPPER == Authorization(ALICE, PAYEE_UPPER, <<"0">>, <<"2", "0">>, "0xn2")
AUTH_EARLY == Authorization(ALICE, PAYEE, <<"9">>, <<"2", "0">>, "0xn1")
AUTH_EXPIRED == Authorization(ALICE, PAYEE, <<"0">>, <<"5">>, "0xn1")
AUTH_TO_BOB == Authorization(ALICE, BOB, <<"0">>, <<"2", "0">>, "0xn1")
AUTH_NOT_A_NUMBER == Authorization(ALICE, PAYEE, <<"x">>, <<"2", "0">>, "0xn1")
AUTH_BAD_FROM == Authorization(BAD_ADDRESS, PAYEE, <<"0">>, <<"2", "0">>, "0xn1")

\* payloads every check accepts while the nonce is unused (Bob's from time 6 on)
GoodPayloads == {Signed(AUTH_ALICE), Signed(AUTH_BOB), Signed(AUTH_UPPER)}

\* payloads with every field present that some check rejects
RejectedPayloads ==
  { PaymentPayload("exact", "sepolia", AUTH_ALICE, SignatureFor(AUTH_ALICE)),
    PaymentPayload("exact-confidential", "base", AUTH_ALICE, SignatureFor(AUTH_ALICE)),
    Signed(AUTH_EARLY),
    Signed(AUTH_EXPIRED),
    PaymentPayload("exact-confidential", "sepolia", AUTH_ALICE, SignatureFor(AUTH_BOB)),
    PaymentPayload("exact-confidential", "sepolia", AUTH_ALICE, MalformedSignature),
    Signed(AUTH_TO_BOB) }

\* values JSON.parse returns that are no complete PaymentPayload
JSON_NULL == [isNull |-> TRUE]
PartialPayloads ==
  { JSON_NULL,
    [foo |-> "bar"],
    [x402Version |-> X402_VERSION, scheme |-> "exact-confidential", network |-> "sepolia"],
    [x402Version |-> X402_VERSION, scheme |-> "exact", network |-> "sepolia",
     payload |-> [signature |-> SignatureFor(AUTH_ALICE)]],
    [x402Version |-> X402_VERSION, scheme |-> "exact-confidential", network |-> "sepolia",
     payload |-> [signature |-> SignatureFor(AUTH_ALICE),
                  authorization |-> [from |-> ALICE, to |-> PAYEE]]],
    [x402Version |-> X402_VERSION, scheme |-> "exact", network |-> "sepolia",
     payload |-> [signature |-> SignatureFor(AUTH_ALICE),
                  authorization |-> [to |-> PAYEE]]],
    Signed(AUTH_NOT_A_NUMBER),
    Signed(AUTH_BAD_FROM) }

JsonValues == GoodPayloads \cup RejectedPayloads \cup PartialPayloads

\* the fields PaymentPayload and Authorization declare (part_004:236-257)
AuthorizationFields ==
  {"from", "to", "encryptedValueHandle", "inputProof", "validAfter",
   "validBefore", "nonce"}

IsCompletePayload(v) ==
  /\ {"x402Version", "scheme", "network", "payload"} \subseteq DOMAIN v
  /\ {"signature", "authorization"} \subseteq DOMAIN v.payload
  /\ AuthorizationFields \subseteq DOMAIN v.payload.authorization

\* ------------------------------------------------------------------- codec
\* an encoded header value: Base64 of a JSON text, or text that is no JSON
Base64Json(v) == [json |-> v]
NOT_JSON == [garbage |-> TRUE]
EMPTY_TEXT == [empty |-> TRUE]

\* fault: a numeric text is written as a JSON number, which keeps its value
\* and not its spelling
JsonNumeral(text) == [str |-> ToDecimal(BigInt(text).val)]

\* JSON.stringify of a string: the characters between quotes, every one kept
JsonString(text) == [str |-> text]

\* JSON.parse of a string token
JsonUnquote(token) == token.str

\* JSON.stringify of an Authorization: validAfter and validBefore, the
\* numeric texts, are written as strings (the other fields are strings that
\* nothing parses and are carried as they are)
StringifyAuthorization(authorization) ==
  LET a1 == IF Has(authorization, "validAfter")
            THEN [authorization EXCEPT !.validAfter = JsonString(@)]
            ELSE authorization
  IN IF Has(a1, "validBefore")
     THEN [a1 EXCEPT !.validBefore = JsonString(@)] ELSE a1

\* JSON.parse of what StringifyAuthorization wrote
ParseAuthorization(authorization) ==
  LET a1 == IF Has(authorization, "validAfter")
            THEN [authorization EXCEPT !.validAfter = JsonUnquote(@)]
            ELSE authorization
  IN IF Has(a1, "validBefore")
     THEN [a1 EXCEPT !.validBefore = JsonUnquote(@)] ELSE a1

\* JSON.stringify(value): an object is written property by property
JsonStringify(v) ==
  IF Has(v, "payload") /\ Has(v.payload, "authorization")
  THEN [v EXCEPT !.payload.authorization = StringifyAuthorization(@)]
  ELSE v

\* JSON.parse(text) of a JSON text
JsonParse(t) ==
  IF Has(t, "payload") /\ Has(t.payload, "authorization")
  THEN [t EXCEPT !.payload.authorization = ParseAuthorization(@)]
  ELSE t

\* encoding.ts:10-13   JSON.stringify, then Base64
encodePaymentPayload(payload) == Base64Json(JsonStringify(payload))

\* encoding.ts:18-21   Base64 to text, then JSON.parse, whose value is returned
\* as it is; JSON.parse raises SyntaxError on text that is no JSON
decodePaymentPayload(encoded) ==
  IF Has(encoded, "json") THEN [ok |-> TRUE, val |-> JsonParse(encoded.json)]
  ELSE [ok |-> FALSE, val |-> None]

\* what c.req.header("X-PAYMENT") can be
NO_HEADER == [absent |-> TRUE]
Headers ==
  {NO_HEADER, EMPTY_TEXT, NOT_JSON} \cup
  {Base64Json(JsonStringify(v)) : v \in JsonValues \ {Signed(AUTH_UPPER)}}

\* ------------------------------------------------------------ verification
\* how a call ends: it returns a value or it raises
Throw == [kind |-> "throw"]
Return(v) == [kind |-> "return", value |-> v]

\* fault: a rejection names no payer
RejectionWithoutPayer(reason, authorization) ==
  [isValid |-> FALSE, invalidReason |-> reason]

\* {isValid: false, invalidReason, payer: authorization.from}
Rejection(reason, authorization) ==
  IF Has(authorization, "from")
  THEN [isValid |-> FALSE, invalidReason |-> reason, payer |-> authorization.from]
  ELSE [isValid |-> FALSE, invalidReason |-> reason]

\* fhevm.ts:263-266
Accepted(authorization) == [isValid |-> TRUE, payer |-> authorization.from]

\* fhevm.ts:136
SchemeMismatch(payload) ==
  ~Has(payload, "scheme") \/ payload.scheme # "exact-confidential"

\* fhevm.ts:145
NetworkMismatch(payload, requirements) ==
  ~Has(payload, "network") \/ payload.network # requirements.network

\* fhevm.ts:156
NotYetValid(validAfter, now) == validAfter > now

\* fault: the comparison is the wrong way round
ExpiredReversed(validBefore, now) == validBefore >= now + SAFETY_MARGIN

\* fault: an authorization ending exactly at the margin is turned away
ExpiredAtMargin(validBefore, now) == validBefore <= now + SAFETY_MARGIN

\* fhevm.ts:164
Expired(validBefore, now) == validBefore < now + SAFETY_MARGIN

\* fhevm.ts:133-170: the checks made before the ledger is asked.  Ends in
\* a return, a raise, or "query": the isNonceUsed call is to be made.
VerifyLocalChecks(payload, requirements, now) ==
  IF Has(payload, "isNull") \/ ~Has(payload, "payload") THEN Throw
  ELSE
    LET hasAuth == Has(payload.payload, "authorization")
        authorization == payload.payload.authorization
    IN
    IF SchemeMismatch(payload)
      THEN IF hasAuth THEN Return(Rejection("unsupported_scheme", authorization))
           ELSE Throw
    ELSE IF NetworkMismatch(payload, requirements)
      THEN IF hasAuth THEN Return(Rejection("invalid_network", authorization))
           ELSE Throw
    ELSE IF ~hasAuth \/ ~Has(authorization, "validAfter") THEN Throw
    ELSE IF ~BigInt(authorization.validAfter).ok THEN Throw
    ELSE IF NotYetValid(BigInt(authorization.validAfter).val, now)
      THEN Return(Rejection("authorization_not_yet_valid", authorization))
    ELSE IF ~Has(authorization, "validBefore") THEN Throw
    ELSE IF ~BigInt(authorization.validBefore).ok THEN Throw
    ELSE IF Expired(BigInt(authorization.validBefore).val, now)
      THEN Return(Rejection("authorization_expired", authorization))
    ELSE [kind |-> "query"]

\* fhevm.ts:174-183: the arguments of isNonceUsed encode (the call is sent)
NonceQueryEncodes(authorization) ==
  /\ Has(authorization, "from") /\ isAddress(authorization.from)
  /\ Has(authorization, "nonce")

\* fhevm.ts:198-203
SigningDomain(requirements, chainId) ==
  Domain(IF Has(requirements, "extra") THEN requirements.extra.name
         ELSE "ConfidentialUSD",
         IF Has(requirements, "extra") THEN requirements.extra.version
         ELSE "1",
         chainId, requirements.asset)

\* fhevm.ts:216-233: the typed-data check of the signature; ok = FALSE when
\* the library raises
CheckSignature(payload, requirements, chainId) ==
  LET authorization == payload.payload.authorization IN
  IF /\ Has(payload.payload, "signature")
     /\ {"from", "to", "encryptedValueHandle", "nonce"} \subseteq DOMAIN authorization
     /\ isAddress(authorization.to)
  THEN verifyTypedData(
         authorization.from,
         SigningDomain(requirements, chainId),
         Message(authorization.from, authorization.to,
                 authorization.encryptedValueHandle,
                 BigInt(authorization.validAfter).val,
                 BigInt(authorization.validBefore).val,
                 authorization.nonce),
         payload.payload.signature)
  ELSE [ok |-> FALSE, val |-> FALSE]

\* fault: the two spellings are compared as they are written
RecipientMismatchAsWritten(to, payTo) == to # payTo

\* fhevm.ts:251-253
RecipientMismatch(to, payTo) == getAddress(to).val # getAddress(payTo).val

\* fault: the answer of the ledger is not looked at
NonceUsedNever(answer) == FALSE

\* fault: fail closed, a query that raised counts as a used nonce
NonceUsedOrUnknown(answer) == answer # "unused"

\* fhevm.ts:185   if (isUsed): the query answered true; a query that raised
\* leaves the catch of fhevm.ts:192-195 and rejects nothing
NonceUsed(answer) == answer = "used"

\* fault: the recipient is compared before the signature is checked
VerifyRemainingChecksRecipientFirst(payload, requirements, answer) ==
  LET authorization == payload.payload.authorization
      chain == getChainId(requirements.network)
      sig == CheckSignature(payload, requirements, chain.val)
  IN
  IF NonceUsed(answer)
    THEN Return(Rejection("nonce_already_used", authorization))
  ELSE IF ~chain.ok THEN Throw
  ELSE IF ~getAddress(authorization.to).ok \/ ~getAddress(requirements.payTo).ok
    THEN Throw
  ELSE IF RecipientMismatch(authorization.to, requirements.payTo)
    THEN Return(Rejection("recipient_mismatch", authorization))
  ELSE IF ~sig.ok \/ ~sig.val
    THEN Return(Rejection("invalid_signature", authorization))
  ELSE Return(Accepted(authorization))

\* fhevm.ts:185-266: the checks made once the ledger answered "used",
\* "unused" or "error" (the query raised)
VerifyRemainingChecks(payload, requirements, answer) ==
  LET authorization == payload.payload.authorization
      chain == getChainId(requirements.network)
      sig == CheckSignature(payload, requirements, chain.val)
  IN
  IF NonceUsed(answer)
    THEN Return(Rejection("nonce_already_used", authorization))
  ELSE IF ~chain.ok THEN Throw
  ELSE IF ~sig.ok \/ ~sig.val
    THEN Return(Rejection("invalid_signature", authorization))
  ELSE IF ~getAddress(authorization.to).ok \/ ~getAddress(requirements.payTo).ok
    THEN Throw
  ELSE IF RecipientMismatch(authorization.to, requirements.payTo)
    THEN Return(Rejection("recipient_mismatch", authorization))
  ELSE Return(Accepted(authorization))

\* fhevm.ts:128-267
verifyConfidentialPayment(payload, requirements, now, answer) ==
  LET local == VerifyLocalChecks(payload, requirements, now) IN
  IF local.kind = "query"
  THEN VerifyRemainingChecks(payload, requirements, answer)
  ELSE local

\* -------------------------------------------------------------- settlement
\* texts of the errors the ledger client raises
ErrorMessages ==
  {"execution reverted: insufficient balance",
   "execution reverted: authorization already used",
   "execution reverted: Invalid signature",
   "request timed out",
   ""}

\* errorMessage.includes(phrase)
Includes(message, phrase) ==
  \/ phrase = "insufficient balance"
       /\ message = "execution reverted: insufficient balance"
  \/ phrase = "already used"
       /\ message = "execution reverted: authorization already used"
  \/ phrase = "Invalid signature"
       /\ message = "execution reverted: Invalid signature"

\* what the collaborators of one settlement did: the ledger write ("ok" or
\* "throw"), the wait for the receipt ("success", "reverted" or "throw"),
\* whether the receipt holds the AuthorizationUsed event, the decryption
\* ("ok" or "throw"), the text of the error raised, the decrypted amount
SettleEnv(write, receipt, event, decrypt, message, transferred) ==
  [write |-> write, receipt |-> receipt, event |-> event, decrypt |-> decrypt,
   message |-> message, transferred |-> transferred]

\* the fields every SettleResponse of settle.ts carries:
\* success, transaction, network: payload.network, payer: authorization.from
SettleBase(success, transaction, payload) ==
  LET authorization == payload.payload.authorization
      r0 == [success |-> success, transaction |-> transaction]
      r1 == IF Has(payload, "network")
            THEN r0 @@ [network |-> payload.network] ELSE r0
  IN IF Has(authorization, "from")
     THEN r1 @@ [payer |-> authorization.from] ELSE r1

\* settle.ts:204-239   the reason a raised error is reported with
MapSettleError(errorMessage) ==
  IF Includes(errorMessage, "insufficient balance") THEN "insufficient_balance"
  ELSE IF Includes(errorMessage, "already used") THEN "nonce_already_used"
  ELSE IF Includes(errorMessage, "Invalid signature") THEN "invalid_signature"
  ELSE IF errorMessage # "" THEN errorMessage
  ELSE "unknown_error"

\* settle.ts:198-241   the catch of the outer try
SettleCatch(payload, errorMessage) ==
  IF ~Has(payload.payload, "authorization") THEN Throw
  ELSE Return(SettleBase(FALSE, "", payload)
              @@ [errorReason |-> MapSettleError(errorMessage)])

\* settle.ts:84-95   the arguments of transferWithAuthorization can be built
SettleArgsBuild(payload) ==
  LET authorization == payload.payload.authorization IN
  /\ Has(payload.payload, "signature")
  /\ Has(payload.payload, "authorization")
  /\ AuthorizationFields \subseteq DOMAIN authorization
  /\ BigInt(authorization.validAfter).ok
  /\ BigInt(authorization.validBefore).ok
  /\ isAddress(authorization.from) /\ isAddress(authorization.to)

\* settle.ts:72   the middleware and the facilitator build the wallet client
\* with an account
WalletHasAccount == TRUE

\* fault: a reverted transaction is reported like an error of the client,
\* without its hash
RevertedResultInCatch(payload, hash) ==
  Return(SettleBase(FALSE, "", payload) @@ [errorReason |-> "unknown_error"])

\* settle.ts:102-110   the receipt has a status other than success
RevertedResult(payload, hash) ==
  Return(SettleBase(FALSE, hash, payload)
         @@ [errorReason |-> "transaction_reverted"])

\* fault: a receipt without the event is reported as a failed settlement
MissingEventResultAsFailure(payload, hash) ==
  Return(SettleBase(FALSE, hash, payload) @@ [errorReason |-> "unknown_error"])

\* settle.ts:119-128   the receipt holds no AuthorizationUsed event
MissingEventResult(payload, hash) == Return(SettleBase(TRUE, hash, payload))

\* fault: an error of the decryption reaches the catch of the outer try
DecryptCatchAsFailure(payload, hash) ==
  Return(SettleBase(FALSE, "", payload) @@ [errorReason |-> "unknown_error"])

\* settle.ts:188-197   the catch of the decryption try
DecryptCatch(payload, hash) == Return(SettleBase(TRUE, hash, payload))

\* fault: an amount exactly equal to maxAmountRequired counts as partial
InterpretTransferredBelowOrEqual(payload, requirements, hash, transferred) ==
  IF transferred = 0
    THEN Return(SettleBase(FALSE, hash, payload)
                @@ [errorReason |-> "insufficient_balance"])
  ELSE IF ~BigInt(requirements.maxAmountRequired).ok
    THEN Return(SettleBase(TRUE, hash, payload))
  ELSE IF transferred <= BigInt(requirements.maxAmountRequired).val
    THEN Return(SettleBase(FALSE, hash, payload)
                @@ [errorReason |-> "partial_transfer",
                    transferredAmount |-> ToDecimal(transferred)])
  ELSE Return(SettleBase(TRUE, hash, payload)
              @@ [transferredAmount |-> ToDecimal(transferred)])

\* settle.ts:157-187   the decrypted amount against maxAmountRequired
InterpretTransferred(payload, requirements, hash, transferred) ==
  IF transferred = 0
    THEN Return(SettleBase(FALSE, hash, payload)
                @@ [errorReason |-> "insufficient_balance"])
  ELSE IF ~BigInt(requirements.maxAmountRequired).ok
    \* BigInt raises inside the decryption try: settle.ts:188-197
    THEN DecryptCatch(payload, hash)
  ELSE IF transferred < BigInt(requirements.maxAmountRequired).val
    THEN Return(SettleBase(FALSE, hash, payload)
                @@ [errorReason |-> "partial_transfer",
                    transferredAmount |-> ToDecimal(transferred)])
  ELSE Return(SettleBase(TRUE, hash, payload)
              @@ [transferredAmount |-> ToDecimal(transferred)])

\* settle.ts:63-242
settleConfidentialPayment(payload, requirements, hash, env) ==
  IF Has(payload, "isNull") \/ ~Has(payload, "payload") THEN Throw
  ELSE IF ~WalletHasAccount THEN Throw
  ELSE IF ~SettleArgsBuild(payload)
    THEN SettleCatch(payload, "Cannot convert undefined to a BigInt")
  ELSE IF env.write = "throw" THEN SettleCatch(payload, env.message)
  ELSE IF env.receipt = "throw" THEN SettleCatch(payload, env.message)
  ELSE IF env.receipt # "success" THEN RevertedResult(payload, hash)
  ELSE IF ~env.event THEN MissingEventResult(payload, hash)
  ELSE IF env.decrypt = "throw" THEN DecryptCatch(payload, hash)
  ELSE InterpretTransferred(payload, requirements, hash, env.transferred)

\* settle.ts:86   the write is sent to the ledger
ReachesLedger(payload) ==
  /\ ~Has(payload, "isNull") /\ Has(payload, "payload")
  /\ WalletHasAccount /\ SettleArgsBuild(payload)

\* ------------------------------------------------------- HTTP responses
\* c.json(body, status)
JsonResponse(body, status) ==
  [status |-> status, body |-> body,
   headers |-> [contentType |-> "application/json"]]

\* what the protected handler (or any downstream handler) can answer
ResourceResponses ==
  { JsonResponse([report |-> "sunny"], 200),
    JsonResponse([message |-> "bad request"], ERROR_STATUS_FLOOR),
    JsonResponse([message |-> "internal error"], 500) }

\* middleware.ts:77   !payment
HasPayment(payment) == ~(Has(payment, "absent") \/ Has(payment, "empty"))

\* middleware.ts:78-86
ChallengeResponse(routeConfig, paymentRequirements) ==
  JsonResponse(
    [error |-> ErrorMessage(routeConfig, "paymentRequired", "Payment required"),
     accepts |-> <<paymentRequirements>>,
     x402Version |-> X402_VERSION],
    PAYMENT_REQUIRED_STATUS)

\* fault: a header that does not decode is answered 400 without requirements
InvalidPaymentBadRequest(routeConfig, paymentRequirements) ==
  JsonResponse(
    [error |-> ErrorMessage(routeConfig, "invalidPayment", "Invalid payment header")],
    ERROR_STATUS_FLOOR)

\* middleware.ts:94-101
InvalidPaymentResponse(routeConfig, paymentRequirements) ==
  JsonResponse(
    [error |-> ErrorMessage(routeConfig, "invalidPayment", "Invalid payment header"),
     accepts |-> <<paymentRequirements>>],
    PAYMENT_REQUIRED_STATUS)

\* fault: the verification result is not looked at
IsRejectedNever(verification) == FALSE

\* middleware.ts:111
IsRejected(verification) == ~verification.isValid

\* middleware.ts:112-120
VerificationFailedResponse(routeConfig, paymentRequirements, verification) ==
  LET body == [error |-> ErrorMessage(routeConfig, "verificationFailed",
                                      verification.invalidReason),
               accepts |-> <<paymentRequirements>>]
  IN JsonResponse(
       IF Has(verification, "payer")
       THEN body @@ [payer |-> verification.payer] ELSE body,
       PAYMENT_REQUIRED_STATUS)

\* index.ts:178-184
FacilitatorVerifyFailedResponse(paymentRequirements) ==
  JsonResponse(
    [error |-> "Failed to verify payment with facilitator",
     accepts |-> <<paymentRequirements>>],
    PAYMENT_REQUIRED_STATUS)

\* fault: a status of exactly 400 is taken for a success
SkipsSettlementAbove(res) == res.status > ERROR_STATUS_FLOOR

\* middleware.ts:129
SkipsSettlement(res) == res.status >= ERROR_STATUS_FLOOR

\* fault: the receipt header replaces the headers of the response
ReplaceHeaders(res, decodedPayment) ==
  [res EXCEPT !.headers =
     ("X-PAYMENT-RESPONSE" :> encodePaymentPayload(decodedPayment))]

\* middleware.ts:149-159   the header value, then res.headers.set
AttachReceipt(res, decodedPayment) ==
  [res EXCEPT !.headers =
     ("X-PAYMENT-RESPONSE" :> encodePaymentPayload(decodedPayment)) @@ @]

\* middleware.ts:164-171
SettlementFailedResponse(routeConfig, paymentRequirements, message) ==
  JsonResponse(
    [error |-> ErrorMessage(routeConfig, "settlementFailed", message),
     accepts |-> <<paymentRequirements>>],
    PAYMENT_REQUIRED_STATUS)

\* ------------------------------------------------------ facilitator service
\* the text of the TypeError a property read of undefined raises
TYPE_ERROR == "Cannot read properties of undefined"

\* facilitator/src/index.ts:82-83   the handler logs authorization.from
\* and authorization.to before it calls the core function
LogsPayer(paymentPayload) ==
  /\ Has(paymentPayload, "payload")
  /\ Has(paymentPayload.payload, "authorization")

\* facilitator/src/index.ts:65-103   POST /verify
FacilitatorVerify(paymentPayload, paymentRequirements, now, answer) ==
  IF Has(paymentPayload, "isNull")
    THEN [status |-> 400,
          body |-> [error |-> "Missing paymentPayload or paymentRequirements"]]
  ELSE IF ~LogsPayer(paymentPayload)
    THEN [status |-> 500, body |-> [error |-> TYPE_ERROR]]
  ELSE LET v == verifyConfidentialPayment(paymentPayload, paymentRequirements,
                                          now, answer)
       IN IF v.kind = "throw"
          THEN [status |-> 500, body |-> [error |-> TYPE_ERROR]]
          ELSE [status |-> 200, body |-> v.value]

\* facilitator/src/index.ts:109-154   POST /settle
FacilitatorSettle(paymentPayload, paymentRequirements, hash, env) ==
  IF Has(paymentPayload, "isNull")
    THEN [status |-> 400,
          body |-> [error |-> "Missing paymentPayload or paymentRequirements"]]
  ELSE IF ~LogsPayer(paymentPayload)
    THEN [status |-> 500, body |-> [error |-> TYPE_ERROR]]
  ELSE LET s == settleConfidentialPayment(paymentPayload, paymentRequirements,
                                          hash, env)
       IN IF s.kind = "throw"
          THEN [status |-> 500, body |-> [error |-> TYPE_ERROR]]
          ELSE [status |-> 200, body |-> s.value]

\* =================================================================== state
VARIABLES
  cfg,          \* the deployment: which middleware, the route's errorMessages
  ledgerUsed,   \* the (from, nonce) pairs the ledger has consumed
  rq,           \* per request: the middleware's locals and what it has done
  facVerified,  \* facilitator: payloads POST /verify answered isValid = true
  facSubmitted, \* facilitator: payloads POST /settle sent to the ledger
  facSettled,   \* facilitator: payloads POST /settle answered a SettleResult
  clock,        \* the clock reading, in seconds (Date.now() / 1000)
  call,         \* a library function called on its own: inputs and results
  fhe           \* the FHEVM module: isInitialized, clientCache, its callers

vars == <<cfg, ledgerUsed, rq, facVerified, facSubmitted, facSettled,
          clock, call, fhe>>

Times == 5..MaxNow

\* the first clock reading
FirstNow == CHOOSE t \in Times : \A u \in Times : t <= u

\* no library function has been called on its own
NoCall == [fn |-> "none"]

Callers == 1..NumCallers

\* a caller that has not called getFHEVMClient; of its call in progress:
\* since, the (key, client) results of the calls completed before it
\* started and not cleared since, ranInit, whether it started initFHEVM,
\* made, whether it created a client; calls counts its completed calls
IdleCaller ==
  [pc |-> "idle", config |-> None, client |-> 0, since |-> {},
   ranInit |-> FALSE, made |-> FALSE, calls |-> 0]

\* fhevm.ts:13-18   the module as loaded: an empty clientCache,
\* isInitialized = false; inits and created record the runs of initFHEVM
\* and the cache key of every client createFHEVMClient delivered; done holds
\* the (key, client) results of the calls completed since the last clear,
\* sinceClear tells whether clearFHEVMCache was called and an initialization
\* started after it, clears counts the calls of clearFHEVMCache
FheLoaded ==
  [isInitialized |-> FALSE, clientCache |-> <<>>, inits |-> 0,
   created |-> <<>>, callers |-> [c \in Callers |-> IdleCaller],
   done |-> {}, sinceClear |-> "none", clears |-> 0]

\* MiddlewareOptions of the deployment (index.ts:18-35)
PAY_TO == PAYEE
CONTRACT_ADDRESS == ASSET
Routes == IF Has(cfg, "routes") THEN cfg.routes ELSE RoutesOf(cfg.errorMessages)

\* the transaction hash the ledger gives the submission of request r
TxHash(r) == IF r = 1 THEN "0xtx1" ELSE "0xtx2"

\* the pairs earlier settlements may have consumed before the first request
PriorPairs == {<<ALICE, "0xn1">>}

NoEnv == SettleEnv("ok", "success", FALSE, "ok", "", 0)

IdleRequest ==
  [pc |-> "idle", url |-> None, header |-> None, route |-> 0,
   paymentRequirements |-> None, decodedPayment |-> None,
   verifyArg |-> None, verifyReq |-> None, verification |-> None,
   res |-> None, settleArg |-> None, settleReq |-> None,
   submitted |-> None, net |-> "ok",
   env |-> NoEnv, settlement |-> None, rejected |-> "", response |-> None,
   isUsed |-> FALSE, verifyNet |-> "none", trace |-> <<>>]

Init ==
  /\ cfg \in [mode : {"local", "remote"},
              errorMessages : {None, CustomErrorMessages}]
  /\ ledgerUsed \in SUBSET PriorPairs
  /\ rq = [r \in Requests |-> IdleRequest]
  /\ facVerified = {}
  /\ facSubmitted = {}
  /\ facSettled = {}
  /\ clock = FirstNow
  /\ call = NoCall
  /\ fhe = FheLoaded

FacUnchanged == UNCHANGED <<facVerified, facSubmitted, facSettled>>

CallUnchanged == UNCHANGED <<clock, call, fhe>>

\* the (from, nonce) pair of a payload that has both
NoncePair(payload) ==
  <<payload.payload.authorization.from, payload.payload.authorization.nonce>>

\* ------------------------------------------------------ ledger collaborator
\* isNonceUsed(from, nonce): the ledger's answer, or the call raises
LedgerAnswers(payload) ==
  {IF NoncePair(payload) \in ledgerUsed THEN "used" ELSE "unused", "error"}

\* transferWithAuthorization: the write is simulated against the ledger
\* state; a consumed pair is refused, any write can fail
LedgerWriteOutcomes(payload) ==
  IF NoncePair(payload) \in ledgerUsed
  THEN {[write |-> "throw", message |-> m] :
          m \in {"execution reverted: authorization already used",
                 "request timed out"}}
  ELSE {[write |-> "ok", message |-> ""]} \cup
       {[write |-> "throw", message |-> m] :
          m \in ErrorMessages \ {"execution reverted: authorization already used"}}

\* waitForTransactionReceipt: the transaction is mined; the ledger consumes
\* each pair at most once, so a consumed pair makes the transaction revert
LedgerReceiptOutcomes(payload) ==
  (IF NoncePair(payload) \in ledgerUsed THEN {}
   ELSE {[receipt |-> "success", event |-> e, message |-> ""] : e \in BOOLEAN})
  \cup {[receipt |-> "reverted", event |-> FALSE, message |-> ""]}
  \cup {[receipt |-> "throw", event |-> FALSE, message |-> m] :
          m \in {"request timed out", ""}}

\* client.decrypt: the plaintext amount, or the collaborator raises
DecryptOutcomes ==
  {[decrypt |-> "throw", transferred |-> 0]} \cup
  {[decrypt |-> "ok", transferred |-> t] : t \in 0..MaxTransferred}

\* ----------------------------------------------------- payment middleware
\* the request ends: the middleware returned (c.res is the response)
Respond(rec, response, rejected) ==
  [rec EXCEPT !.pc = "done", !.response = response, !.rejected = rejected,
              !.trace = Append(@, "respond")]

\* middleware.ts:39-109 (index.ts:92-169): route matching, the requirements,
\* the header, decoding, and the call of the verifier
Receive(r, u, h) ==
  /\ rq[r].pc = "idle"
  /\ LET route == MatchingRoute(Routes, u)
         routeConfig == Routes[route]
         paymentRequirements ==
           BuildPaymentRequirements(routeConfig, u, PAY_TO, CONTRACT_ADDRESS)
         decoded == decodePaymentPayload(h)
         rec == [rq[r] EXCEPT !.url = u, !.header = h, !.route = route]
         matched == [rec EXCEPT !.paymentRequirements = paymentRequirements]
     IN rq' = [rq EXCEPT ![r] =
          IF route = 0
            THEN [rec EXCEPT !.pc = "passthrough", !.trace = Append(@, "next")]
          ELSE IF ~HasPayment(h)
            THEN Respond(matched,
                         ChallengeResponse(routeConfig, paymentRequirements),
                         "payment_required")
          ELSE IF ~decoded.ok
            THEN Respond([matched EXCEPT !.trace = Append(@, "decode")],
                         InvalidPaymentResponse(routeConfig, paymentRequirements),
                         "invalid_payment")
          ELSE [matched EXCEPT !.pc = "verifying",
                               !.decodedPayment = decoded.val,
                               !.verifyArg = decoded.val,
                               !.verifyReq = paymentRequirements,
                               !.trace = @ \o <<"decode", "verify">>]]
  /\ UNCHANGED <<cfg, ledgerUsed>>
  /\ FacUnchanged
  /\ CallUnchanged

\* the remote call of index.ts:160-175: "fetch_failed" (no answer),
\* "bad_status" (an answer that is not OK), "bad_body" (a body that cannot be
\* read), "ok"
NetOutcomes == {"ok", "fetch_failed", "bad_status", "bad_body"}

\* fault: fail open, a verification that could not be made counts as passed
RemoteVerifyFailOpen(paymentPayload, paymentRequirements, now, answer, net) ==
  LET resp == FacilitatorVerify(paymentPayload, paymentRequirements, now, answer)
  IN IF net # "ok" \/ resp.status # 200 THEN Return([isValid |-> TRUE])
     ELSE Return(resp.body)

\* index.ts:159-185   the facilitator's answer as the middleware reads it:
\* a VerifyResponse, or the catch is taken
RemoteVerify(paymentPayload, paymentRequirements, now, answer, net) ==
  LET resp == FacilitatorVerify(paymentPayload, paymentRequirements, now, answer)
  IN IF net # "ok" \/ resp.status # 200 THEN [kind |-> "failed"]
     ELSE Return(resp.body)

\* fault: the isNonceUsed call is made before the temporal checks
AsksLedgerEarly(mode, paymentPayload, paymentRequirements, now, net) ==
  /\ mode = "remote" => (net # "fetch_failed" /\ ~Has(paymentPayload, "isNull")
                         /\ LogsPayer(paymentPayload))
  /\ ~Has(paymentPayload, "isNull") /\ Has(paymentPayload, "payload")
  /\ Has(paymentPayload.payload, "authorization")
  /\ ~SchemeMismatch(paymentPayload)
  /\ ~NetworkMismatch(paymentPayload, paymentRequirements)
  /\ NonceQueryEncodes(paymentPayload.payload.authorization)

\* the verifier reaches the isNonceUsed call and the call is sent
AsksLedger(mode, paymentPayload, paymentRequirements, now, net) ==
  /\ mode = "remote" => (net # "fetch_failed" /\ ~Has(paymentPayload, "isNull")
                         /\ LogsPayer(paymentPayload))
  /\ VerifyLocalChecks(paymentPayload, paymentRequirements, now).kind = "query"
  /\ NonceQueryEncodes(paymentPayload.payload.authorization)

\* middleware.ts:105-124 (index.ts:157-200): verification returns and the
\* middleware rejects or calls the protected handler
VerifyStep(r, now, net, answer) ==
  LET rec == rq[r]
      routeConfig == Routes[rec.route]
      asks == AsksLedger(cfg.mode, rec.verifyArg, rec.verifyReq, now, net)
      outcome ==
        IF cfg.mode = "local"
        THEN verifyConfidentialPayment(rec.verifyArg, rec.verifyReq,
                                       now, answer)
        ELSE RemoteVerify(rec.verifyArg, rec.verifyReq, now, answer, net)
      asked == [rec EXCEPT
                  !.isUsed = asks /\ answer = "used",
                  !.verifyNet = net,
                  !.trace = IF asks THEN Append(@, "isNonceUsed") ELSE @]
  IN
  IF outcome.kind = "throw"
    THEN [asked EXCEPT !.pc = "crashed", !.trace = Append(@, "unhandled")]
  ELSE IF outcome.kind = "failed"
    THEN Respond(asked, FacilitatorVerifyFailedResponse(rec.paymentRequirements),
                 "verify_unavailable")
  ELSE IF IsRejected(outcome.value)
    THEN Respond([asked EXCEPT !.verification = outcome.value],
                 VerificationFailedResponse(routeConfig, rec.paymentRequirements,
                                            outcome.value),
                 "verification_failed")
  ELSE [asked EXCEPT !.pc = "executing", !.verification = outcome.value,
                     !.trace = Append(@, "next")]

Verify(r) ==
  /\ rq[r].pc = "verifying"
  /\ \E now \in Times :
     \E net \in (IF cfg.mode = "remote" THEN NetOutcomes ELSE {"ok"}) :
     \E answer \in (IF AsksLedger(cfg.mode, rq[r].verifyArg,
                                  rq[r].verifyReq, now, net)
                    THEN LedgerAnswers(rq[r].verifyArg) ELSE {"error"}) :
       rq' = [rq EXCEPT ![r] = VerifyStep(r, now, net, answer)]
  /\ UNCHANGED <<cfg, ledgerUsed>>
  /\ FacUnchanged
  /\ CallUnchanged

\* index.ts:212-228   the facilitator's answer as the middleware reads it:
\* a SettleResponse, or an error is raised inside the try
RemoteSettle(resp, net) ==
  IF net = "fetch_failed" THEN [kind |-> "failed", message |-> "fetch failed"]
  ELSE IF net = "bad_status"
    THEN [kind |-> "failed", message |-> "Facilitator settle failed: 502"]
  ELSE IF resp.status = 400
    THEN [kind |-> "failed", message |-> "Facilitator settle failed: 400"]
  ELSE IF resp.status # 200
    THEN [kind |-> "failed", message |-> "Facilitator settle failed: 500"]
  ELSE IF net = "bad_body"
    THEN [kind |-> "failed", message |-> "Unexpected end of JSON input"]
  ELSE Return(resp.body)

\* middleware.ts:161-167 (index.ts:243-250): the message of the error the
\* catch receives
SettleFailureMessage(outcome) ==
  IF outcome.kind = "throw" THEN TYPE_ERROR
  ELSE IF outcome.kind = "failed" THEN outcome.message
  ELSE IF Has(outcome.value, "errorReason") THEN outcome.value.errorReason
  ELSE "Settlement failed"

\* fault: any returned SettleResponse is taken for a success
SettlementReturned(outcome) == outcome.kind = "return"

\* middleware.ts:148   settlement.success
SettlementSucceeded(outcome) ==
  outcome.kind = "return" /\ outcome.value.success

\* middleware.ts:137-174 (index.ts:213-257): the settlement call ended with
\* the collaborators behaving as env says
SettleFinish(r, rec, env, net) ==
  LET routeConfig == Routes[rec.route]
      outcome ==
        IF cfg.mode = "local"
        THEN settleConfidentialPayment(rec.settleArg, rec.settleReq,
                                       TxHash(r), env)
        ELSE RemoteSettle(FacilitatorSettle(rec.settleArg, rec.settleReq,
                                            TxHash(r), env),
                          net)
      settled == [rec EXCEPT !.env = env, !.net = net, !.settlement = outcome]
  IN IF SettlementSucceeded(outcome)
     THEN Respond(settled, AttachReceipt(rec.res, rec.decodedPayment), "")
     ELSE Respond(settled,
                  SettlementFailedResponse(routeConfig, rec.paymentRequirements,
                                           SettleFailureMessage(outcome)),
                  "settlement_failed")

\* middleware.ts:124-146 (index.ts:200-222), and line 52 for a request no
\* route matches: the downstream handler answered
Resource(r, res) ==
  /\ rq[r].pc \in {"passthrough", "executing"}
  /\ LET rec == rq[r] IN
     rq' = [rq EXCEPT ![r] =
       IF rec.pc = "passthrough" THEN Respond(rec, res, "")
       ELSE IF SkipsSettlement(res)
         THEN Respond([rec EXCEPT !.res = res], res, "")
       ELSE [rec EXCEPT !.pc = "submitting", !.res = res,
                        !.settleArg = rec.decodedPayment,
                        !.settleReq = rec.paymentRequirements,
                        !.trace = Append(@, "settle")]]
  /\ UNCHANGED <<cfg, ledgerUsed>>
  /\ FacUnchanged
  /\ CallUnchanged

\* fault: the window sent to the ledger ends the safety margin earlier
LedgerArgumentsShortened(payload) ==
  LET authorization == payload.payload.authorization IN
  [from |-> authorization.from, to |-> authorization.to,
   encryptedValueHandle |-> authorization.encryptedValueHandle,
   inputProof |-> authorization.inputProof,
   validAfter |-> BigInt(authorization.validAfter).val,
   validBefore |-> BigInt(authorization.validBefore).val - SAFETY_MARGIN,
   nonce |-> authorization.nonce,
   signature |-> payload.payload.signature]

\* settle.ts:86-95   the arguments of transferWithAuthorization
LedgerArguments(payload) ==
  LET authorization == payload.payload.authorization IN
  [from |-> authorization.from, to |-> authorization.to,
   encryptedValueHandle |-> authorization.encryptedValueHandle,
   inputProof |-> authorization.inputProof,
   validAfter |-> BigInt(authorization.validAfter).val,
   validBefore |-> BigInt(authorization.validBefore).val,
   nonce |-> authorization.nonce,
   signature |-> payload.payload.signature]

\* the settlement call gets as far as the ledger write
SettleReachesLedger(mode, payload, net) ==
  /\ mode = "remote" => (net # "fetch_failed" /\ ~Has(payload, "isNull")
                         /\ LogsPayer(payload))
  /\ ReachesLedger(payload)

\* how the remote call of index.ts:213-228 can end once the facilitator
\* was reached (the local call of middleware.ts:137 just returns)
AnswerOutcomes == IF cfg.mode = "remote" THEN NetOutcomes \ {"fetch_failed"}
                  ELSE {"ok"}

\* fault: a write that raised is sent again
WriteFailedRetried(r, rec, message, net) ==
  [rec EXCEPT !.trace = Append(@, "transferWithAuthorization")]

\* settle.ts:86-97 and 198-241: the ledger write raised; the catch ends the
\* settlement call, the write is not sent again
WriteFailed(r, rec, message, net) ==
  SettleFinish(r, [rec EXCEPT !.trace = Append(@, "transferWithAuthorization")],
               [NoEnv EXCEPT !.write = "throw", !.message = message], net)

\* settle.ts:70-97: the settlement call up to the ledger write
Submit(r) ==
  /\ rq[r].pc = "submitting"
  /\ \E sent \in (IF cfg.mode = "remote" THEN {"ok", "fetch_failed"} ELSE {"ok"}) :
     \E net \in AnswerOutcomes :
     LET rec == rq[r] IN
     IF ~SettleReachesLedger(cfg.mode, rec.settleArg, sent)
     THEN rq' = [rq EXCEPT ![r] =
            SettleFinish(r, rec, NoEnv,
                         IF sent = "fetch_failed" THEN sent ELSE net)]
     ELSE \E w \in LedgerWriteOutcomes(rec.settleArg) :
       rq' = [rq EXCEPT ![r] =
         IF w.write = "throw" THEN WriteFailed(r, rec, w.message, net)
         ELSE [rec EXCEPT !.pc = "mining",
                          !.submitted = LedgerArguments(rec.settleArg),
                          !.trace = Append(@, "transferWithAuthorization")]]
  /\ UNCHANGED <<cfg, ledgerUsed>>
  /\ FacUnchanged
  /\ CallUnchanged

\* settle.ts:100-131: the wait for the receipt, and the event in it
Mine(r) ==
  /\ rq[r].pc = "mining"
  /\ \E o \in LedgerReceiptOutcomes(rq[r].settleArg), net \in AnswerOutcomes :
     LET env == [NoEnv EXCEPT !.receipt = o.receipt, !.event = o.event,
                              !.message = o.message]
     IN /\ ledgerUsed' = IF o.receipt = "success"
                         THEN ledgerUsed \cup {NoncePair(rq[r].settleArg)}
                         ELSE ledgerUsed
        /\ rq' = [rq EXCEPT ![r] =
             IF o.receipt = "success" /\ o.event
             THEN [rq[r] EXCEPT !.pc = "decrypting", !.env = env]
             ELSE SettleFinish(r, rq[r], env, net)]
  /\ UNCHANGED cfg
  /\ FacUnchanged
  /\ CallUnchanged

\* settle.ts:134-197: the decryption of the transferred amount
Decrypt(r) ==
  /\ rq[r].pc = "decrypting"
  /\ \E d \in DecryptOutcomes, net \in AnswerOutcomes :
       rq' = [rq EXCEPT ![r] =
         SettleFinish(r, [rq[r] EXCEPT !.trace = Append(@, "decrypt")],
                      [rq[r].env EXCEPT !.decrypt = d.decrypt,
                                        !.transferred = d.transferred],
                      net)]
  /\ UNCHANGED <<cfg, ledgerUsed>>
  /\ FacUnchanged
  /\ CallUnchanged

\* --------------------------------------------- facilitator service boundary
\* what callers of the service post: payloads, complete or not, verified
\* before or not
FacPayloads ==
  {Signed(AUTH_ALICE), Signed(AUTH_UPPER), Signed(AUTH_EXPIRED),
   [foo |-> "bar"], JSON_NULL}

\* the requirements callers post with them
FacRequirements ==
  BuildPaymentRequirements(RoutesOf(None)[1], URL_WEATHER, PAY_TO, CONTRACT_ADDRESS)

\* facilitator/src/index.ts:65-103   one POST /verify call
PostVerify(p, now, answer) ==
  /\ (VerifyLocalChecks(p, FacRequirements, now).kind = "query"
       /\ NonceQueryEncodes(p.payload.authorization))
     => answer \in LedgerAnswers(p)
  /\ LET resp == FacilitatorVerify(p, FacRequirements, now, answer) IN
     facVerified' = IF resp.status = 200 /\ resp.body.isValid
                    THEN facVerified \cup {p} ELSE facVerified
  /\ UNCHANGED <<cfg, ledgerUsed, rq, facSubmitted, facSettled>>
  /\ CallUnchanged

\* what the collaborators can do during one whole settlement of a payload
\* that reaches the ledger
SettleEnvs(payload) ==
  LET writes == LedgerWriteOutcomes(payload)
      receipts == LedgerReceiptOutcomes(payload)
  IN {[NoEnv EXCEPT !.write = "throw", !.message = w.message] :
        w \in {x \in writes : x.write = "throw"}}
     \cup
     (IF \E x \in writes : x.write = "ok"
      THEN {[NoEnv EXCEPT !.receipt = o.receipt, !.event = o.event,
                          !.message = o.message] :
              o \in {x \in receipts : ~(x.receipt = "success" /\ x.event)}}
           \cup
           {[NoEnv EXCEPT !.event = TRUE, !.decrypt = d.decrypt,
                          !.transferred = d.transferred] :
              d \in {x \in DecryptOutcomes :
                       \E o \in receipts : o.receipt = "success"}}
      ELSE {})

\* facilitator/src/index.ts:109-154   one POST /settle call
PostSettle(p) ==
  LET reaches == ~Has(p, "isNull") /\ LogsPayer(p) /\ ReachesLedger(p) IN
  \E env \in (IF reaches THEN SettleEnvs(p) ELSE {NoEnv}) :
    LET resp == FacilitatorSettle(p, FacRequirements, "0xtx", env)
        mined == reaches /\ env.write = "ok" /\ env.receipt = "success"
    IN
    /\ facSubmitted' = IF reaches /\ env.write = "ok"
                       THEN facSubmitted \cup {p} ELSE facSubmitted
    /\ facSettled' = IF resp.status = 200
                     THEN facSettled \cup {p} ELSE facSettled
    /\ ledgerUsed' = IF mined THEN ledgerUsed \cup {NoncePair(p)} ELSE ledgerUsed
    /\ UNCHANGED <<cfg, rq, facVerified>>
    /\ CallUnchanged

FacNext ==
  \/ \E p \in FacPayloads, now \in Times, answer \in {"used", "unused", "error"} :
       PostVerify(p, now, answer)
  \/ \E p \in FacPayloads : PostSettle(p)

\* the facilitator service on its own, called by any client
FacSpec == Init /\ [][FacNext]_vars

Next ==
  \/ \E r \in Requests, u \in Urls, h \in Headers : Receive(r, u, h)
  \/ \E r \in Requests : Verify(r)
  \/ \E r \in Requests, res \in ResourceResponses : Resource(r, res)
  \/ \E r \in Requests : Submit(r)
  \/ \E r \in Requests : Mine(r)
  \/ \E r \in Requests : Decrypt(r)

Spec == Init /\ [][Next]_vars

\* ------------------------------------------------- the verifier on its own
\* authorizations on the edges of the window at the first clock reading:
\* validAfter = now and validBefore = now + 6; validBefore = now - 1
AUTH_EDGE == Authorization(ALICE, PAYEE, <<"5">>, <<"1", "1">>, "0xn1")
AUTH_PAST == Authorization(ALICE, PAYEE, <<"0">>, <<"4">>, "0xn1")
AUTH_OTHER_NONCE == Authorization(ALICE, PAYEE, <<"0">>, <<"2", "0">>, "0xn2")

\* Alice's authorization signed by Bob
WrongSignerPayload ==
  PaymentPayload("exact-confidential", "sepolia", AUTH_ALICE,
                 Sign(BOB, DeployedDomain,
                      Message(ALICE, PAYEE, HANDLE, 0, 20, "0xn1")))

\* an authorization carrying a signature made for another nonce
OtherNoncePayload ==
  PaymentPayload("exact-confidential", "sepolia", AUTH_OTHER_NONCE,
                 SignatureFor(AUTH_ALICE))

\* payloads that fail several checks at once: any of the scheme, the
\* network, validAfter and validBefore is wrong, and always the signature
\* (made for another authorization) and the recipient (Bob)
MultiFailPayloads ==
  { PaymentPayload(scheme, network,
                   Authorization(ALICE, BOB, validAfter, validBefore, "0xn1"),
                   SignatureFor(AUTH_ALICE)) :
      scheme \in {"exact", "exact-confidential"},
      network \in {"base", "sepolia"},
      validAfter \in {<<"0">>, <<"9">>},
      validBefore \in {<<"5">>, <<"1", "1">>, <<"2", "0">>} }

\* the payloads verifyConfidentialPayment is called with
VerifyPayloads ==
  GoodPayloads \cup RejectedPayloads \cup MultiFailPayloads
  \cup {Signed(AUTH_EDGE), Signed(AUTH_PAST), WrongSignerPayload,
        OtherNoncePayload}
  \cup {JSON_NULL, [foo |-> "bar"], Signed(AUTH_NOT_A_NUMBER),
        Signed(AUTH_BAD_FROM)}

\* PaymentRequirements without the optional extra (part_004:262-276)
WithoutExtra(requirements) ==
  [f \in DOMAIN requirements \ {"extra"} |-> requirements[f]]

\* the requirements it is called with: the deployment's, the same with
\* payTo spelled in another case, paid to Bob, with a payTo that is no
\* address, for a token of another name, and without extra
VerifyRequirements ==
  { FacRequirements,
    [FacRequirements EXCEPT !.payTo = PAYEE_UPPER],
    [FacRequirements EXCEPT !.payTo = BOB],
    [FacRequirements EXCEPT !.payTo = BAD_ADDRESS],
    [FacRequirements EXCEPT !.extra.name = "OtherUSD"],
    WithoutExtra(FacRequirements) }

\* fhevm.ts:173-191   what the isNonceUsed query can give this call: "none"
\* when the call ends before the query, "error" when the query raises
VerifyAnswers(payload, requirements, now) ==
  IF VerifyLocalChecks(payload, requirements, now).kind # "query" THEN {"none"}
  ELSE IF ~NonceQueryEncodes(payload.payload.authorization) THEN {"error"}
  ELSE LedgerAnswers(payload)

\* fault: a query that raised is answered with what the call before learnt
VerifyRecordLastKnown(payload, requirements, now, answer) ==
  [now |-> now, answer |-> answer,
   asked |-> AsksLedger("local", payload, requirements, now, "ok"),
   ledger |-> ledgerUsed,
   outcome |-> verifyConfidentialPayment(
                 payload, requirements, now,
                 IF answer = "error" /\ call.fn = "verify"
                    /\ call.cur.answer = "used"
                 THEN "used" ELSE answer)]

\* one call of verifyConfidentialPayment: the clock it read, what the ledger
\* query gave, whether the query was sent, the ledger at that time, the result
VerifyRecord(payload, requirements, now, answer) ==
  [now |-> now, answer |-> answer,
   asked |-> AsksLedger("local", payload, requirements, now, "ok"),
   ledger |-> ledgerUsed,
   outcome |-> verifyConfidentialPayment(payload, requirements, now, answer)]

\* fhevm.ts:128-267   the first call, with any payload and requirements
VerifyFirst(payload, requirements) ==
  /\ call = NoCall
  /\ \E answer \in VerifyAnswers(payload, requirements, clock) :
       LET rec == VerifyRecord(payload, requirements, clock, answer) IN
       call' = [fn |-> "verify", payload |-> payload,
                requirements |-> requirements, ref |-> rec, cur |-> rec]
  /\ UNCHANGED <<cfg, ledgerUsed, rq, clock, fhe>>
  /\ FacUnchanged

\* fault: an accepted verification consumes the nonce on the ledger
VerifyAgainConsuming ==
  /\ call.fn = "verify"
  /\ \E answer \in VerifyAnswers(call.payload, call.requirements, clock),
        keep \in BOOLEAN :
       LET rec == VerifyRecord(call.payload, call.requirements, clock, answer)
       IN /\ call' = [call EXCEPT !.ref = IF keep THEN @ ELSE call.cur,
                                  !.cur = rec]
          /\ ledgerUsed' =
               IF rec.outcome.kind = "return" /\ rec.outcome.value.isValid
               THEN ledgerUsed \cup {NoncePair(call.payload)}
               ELSE ledgerUsed
  /\ UNCHANGED <<cfg, rq, clock, fhe>>
  /\ FacUnchanged

\* fhevm.ts:128-267   a later call with the same payload and requirements;
\* ref is one of the earlier calls, cur the latest
VerifyAgain ==
  /\ call.fn = "verify"
  /\ \E answer \in VerifyAnswers(call.payload, call.requirements, clock),
        keep \in BOOLEAN :
       call' = [call EXCEPT
                  !.ref = IF keep THEN @ ELSE call.cur,
                  !.cur = VerifyRecord(call.payload, call.requirements,
                                       clock, answer)]
  /\ UNCHANGED <<cfg, ledgerUsed, rq, clock, fhe>>
  /\ FacUnchanged

\* fhevm.ts:154   time passes between calls
Tick ==
  /\ clock < MaxNow
  /\ clock' = clock + 1
  /\ UNCHANGED <<cfg, ledgerUsed, rq, call, fhe>>
  /\ FacUnchanged

\* a settlement made elsewhere consumes a (from, nonce) pair on the ledger
NonceConsumed(pair) ==
  /\ pair \notin ledgerUsed
  /\ ledgerUsed' = ledgerUsed \cup {pair}
  /\ UNCHANGED <<cfg, rq, clock, call, fhe>>
  /\ FacUnchanged

VerifyInit == Init /\ cfg.mode = "local" /\ IsNone(cfg.errorMessages)

VerifyNext ==
  \/ \E p \in VerifyPayloads, req \in VerifyRequirements : VerifyFirst(p, req)
  \/ VerifyAgain
  \/ Tick
  \/ \E pair \in PriorPairs : NonceConsumed(pair)

\* verifyConfidentialPayment called again and again with one payload and
\* one PaymentRequirements, while the clock and the ledger move
VerifySpec == VerifyInit /\ [][VerifyNext]_vars

\* --------------------------------------------------- the codec on its own
\* the numeric texts of 1 to MaxTextLen digits, leading zeros included
NumericTexts ==
  UNION {[1..n -> {"0", "1", "9"}] : n \in 1..MaxTextLen}

\* syntactically valid payloads: every field present, the timestamps carried
\* as numeric text (createPaymentHeader.ts:108-124)
CodecPayloads ==
  { Signed(Authorization(ALICE, PAYEE, validAfter, validBefore, "0xn1")) :
      validAfter \in NumericTexts, validBefore \in NumericTexts }

\* encoding.ts:10-13   one call of encodePaymentPayload
Encode(payload) ==
  /\ call = NoCall
  /\ call' = [fn |-> "encode", arg |-> payload,
              out |-> encodePaymentPayload(payload)]
  /\ UNCHANGED <<cfg, ledgerUsed, rq, clock, fhe>>
  /\ FacUnchanged

\* encoding.ts:18-21   decodePaymentPayload called on what encode returned
Decode ==
  /\ call.fn = "encode"
  /\ call' = [fn |-> "decode", arg |-> call.arg, encoded |-> call.out,
              out |-> decodePaymentPayload(call.out)]
  /\ UNCHANGED <<cfg, ledgerUsed, rq, clock, fhe>>
  /\ FacUnchanged

CodecInit == VerifyInit /\ ledgerUsed = {}

CodecNext ==
  \/ \E p \in CodecPayloads : Encode(p)
  \/ Decode

\* a payload is encoded and the header value decoded again
CodecSpec == CodecInit /\ [][CodecNext]_vars

\* --------------------------------------------------- route matching
\* patterns a deployment configures as keys of routes
RoutePatterns ==
  { <<"/", "w">>, <<"/", "w", "*">>, <<"/", "*">>, <<"/", "w", "/", "*">>,
    <<"/", "*", "/", "x">> }

\* the paths of the requests
RoutePaths ==
  { <<"/">>, <<"/", "w">>, <<"/", "h">>, <<"/", "w", "x">>,
    <<"/", "w", "/", "x">>, <<"/", "h", "/", "x">> }

\* the route configured under a pattern, as the i-th key of routes: the
\* price tells the routes apart
RouteUnder(pattern, i) ==
  [RoutesOf(None)[1] EXCEPT !.pattern = pattern, !.price = ToDecimal(i)]

\* MiddlewareOptions.routes of the deployments: no route, one route, or
\* two routes under different patterns, in insertion order
RouteTables ==
  {<<>>}
  \cup {<<RouteUnder(p, 1)>> : p \in RoutePatterns}
  \cup UNION {{<<RouteUnder(p, 1), RouteUnder(q, 2)>> :
                  q \in RoutePatterns \ {p}} : p \in RoutePatterns}

\* a middleware configured with any of the route tables
RouteInit ==
  /\ cfg \in [mode : {"local"}, errorMessages : {None}, routes : RouteTables]
  /\ ledgerUsed = {}
  /\ rq = [r \in Requests |-> IdleRequest]
  /\ facVerified = {}
  /\ facSubmitted = {}
  /\ facSettled = {}
  /\ clock = FirstNow
  /\ call = NoCall
  /\ fhe = FheLoaded

RouteNext ==
  \/ \E r \in Requests, path \in RoutePaths :
       Receive(r, [pathname |-> path, search |-> ""], NO_HEADER)
  \/ \E r \in Requests : Resource(r, JsonResponse([report |-> "sunny"], 200))

\* requests without a payment, to middlewares with any route table
RouteSpec == RouteInit /\ [][RouteNext]_vars

\* ------------------------------------------------ settlement on its own
\* the payloads settleConfidentialPayment is called with
SettlePayloads == {Signed(AUTH_ALICE), Signed(AUTH_UPPER), Signed(AUTH_BOB)}

\* the requirements it is called with: the deployment's, and those of a
\* route whose price is 0.5 (RouteConfig.price is string | number,
\* part_004:339, and middleware.ts:61 writes price.toString())
SettleRequirements ==
  { FacRequirements,
    [FacRequirements EXCEPT !.maxAmountRequired = <<"0", ".", "5">>] }

\* settle.ts:63-242   one call of settleConfidentialPayment, with the
\* collaborators behaving as env says
SettleCall(payload, requirements) ==
  /\ call = NoCall
  /\ \E env \in SettleEnvs(payload) :
       call' = [fn |-> "settle", payload |-> payload,
                requirements |-> requirements, env |-> env,
                out |-> settleConfidentialPayment(payload, requirements,
                                                  "0xtx", env)]
  /\ UNCHANGED <<cfg, ledgerUsed, rq, clock, fhe>>
  /\ FacUnchanged

SettleInit == VerifyInit

SettleNext ==
  \E p \in SettlePayloads, req \in SettleRequirements : SettleCall(p, req)

\* settleConfidentialPayment called with any payload and requirements
SettleSpec == SettleInit /\ [][SettleNext]_vars

\* ------------------------------------------- concurrent paying requests
Racers == 1..NumRacers

\* the X-PAYMENT header of the concurrent requests: one payment of Alice,
\* sent with every one of them
RaceHeaders == {encodePaymentPayload(Signed(AUTH_ALICE))}

\* the middleware as deployed, no request received, nothing consumed yet
RaceInit ==
  /\ cfg \in [mode : {"local", "remote"}, errorMessages : {None}]
  /\ ledgerUsed = {}
  /\ rq = [r \in Racers |-> IdleRequest]
  /\ facVerified = {}
  /\ facSubmitted = {}
  /\ facSettled = {}
  /\ clock = FirstNow
  /\ call = NoCall
  /\ fhe = FheLoaded

RaceNext ==
  \/ \E r \in Racers, h \in RaceHeaders : Receive(r, URL_WEATHER, h)
  \/ \E r \in Racers : Verify(r)
  \/ \E r \in Racers, res \in ResourceResponses : Resource(r, res)
  \/ \E r \in Racers : Submit(r)
  \/ \E r \in Racers : Mine(r)
  \/ \E r \in Racers : Decrypt(r)

\* several requests to the protected route, each with a payment header,
\* handled concurrently by one middleware against one ledger
RaceSpec == RaceInit /\ [][RaceNext]_vars

\* ------------------------------------------- the FHEVM client cache on its own
\* FhevmConfig values the callers pass: one network, two RPC endpoints
FhevmConfigs ==
  {[network |-> <<"s">>, rpcUrl |-> <<"u">>],
   [network |-> <<"s">>, rpcUrl |-> <<"v">>]}

\* fhevm.ts:43-44   `${network}-${rpcUrl}`
CacheKey(config) == config.network \o <<"-">> \o config.rpcUrl

\* fhevm.ts:47   clientCache.has(cacheKey)
CacheHas(cache, key) == key \in DOMAIN cache

\* fhevm.ts:38-40 and 23-26: getFHEVMClient is called; it runs
\* ensureFHEVMInitialized up to its await, which starts initFHEVM when
\* isInitialized is false
GetClient(c, config) ==
  /\ fhe.callers[c].pc = "idle"
  /\ fhe' = [fhe EXCEPT
       !.callers[c] = [pc |-> IF fhe.isInitialized THEN "initialized"
                              ELSE "initializing",
                       config |-> config, client |-> 0,
                       since |-> fhe.done, ranInit |-> ~fhe.isInitialized,
                       made |-> FALSE, calls |-> @.calls],
       !.sinceClear = IF ~fhe.isInitialized /\ @ = "cleared"
                      THEN "restarted" ELSE @]
  /\ UNCHANGED <<cfg, ledgerUsed, rq, clock, call>>
  /\ FacUnchanged

\* fhevm.ts:26-29   the initFHEVM this caller awaits resolves
InitResolved(c) ==
  /\ fhe.callers[c].pc = "initializing"
  /\ fhe' = [fhe EXCEPT !.isInitialized = TRUE, !.inits = @ + 1,
                        !.callers[c].pc = "initialized"]
  /\ UNCHANGED <<cfg, ledgerUsed, rq, clock, call>>
  /\ FacUnchanged

\* fhevm.ts:43-57   back in getFHEVMClient: the cached client is returned,
\* or createFHEVMClient is started and awaited
Lookup(c) ==
  /\ fhe.callers[c].pc = "initialized"
  /\ LET cacheKey == CacheKey(fhe.callers[c].config) IN
     fhe' = IF CacheHas(fhe.clientCache, cacheKey)
            THEN [fhe EXCEPT !.callers[c].pc = "returned",
                             !.callers[c].client = fhe.clientCache[cacheKey],
                             !.done = @ \cup {<<cacheKey, fhe.clientCache[cacheKey]>>}]
            ELSE [fhe EXCEPT !.callers[c].pc = "creating"]
  /\ UNCHANGED <<cfg, ledgerUsed, rq, clock, call>>
  /\ FacUnchanged

\* fhevm.ts:54-63   createFHEVMClient resolves with a new client, which is
\* put in the cache under the key and returned
ClientCreated(c) ==
  /\ fhe.callers[c].pc = "creating"
  /\ LET cacheKey == CacheKey(fhe.callers[c].config)
         client == Len(fhe.created) + 1
     IN fhe' = [fhe EXCEPT
          !.created = Append(@, cacheKey),
          !.clientCache = (cacheKey :> client) @@ @,
          !.callers[c].pc = "returned",
          !.callers[c].client = client,
          !.callers[c].made = TRUE,
          !.done = @ \cup {<<cacheKey, client>>}]
  /\ UNCHANGED <<cfg, ledgerUsed, rq, clock, call>>
  /\ FacUnchanged

CacheInit == CodecInit

CacheNext ==
  \/ \E c \in Callers, config \in FhevmConfigs : GetClient(c, config)
  \/ \E c \in Callers : InitResolved(c)
  \/ \E c \in Callers : Lookup(c)
  \/ \E c \in Callers : ClientCreated(c)

\* request handlers call getFHEVMClient concurrently, each once
CacheSpec == CacheInit /\ [][CacheNext]_vars

\* ------------------------------------------ the cache used again and cleared
\* fhevm.ts:63   getFHEVMClient has returned to its caller, which can call
\* again
CallReturned(c) ==
  /\ fhe.callers[c].pc = "returned"
  /\ fhe.callers[c].calls + 1 < MaxCalls
  /\ fhe' = [fhe EXCEPT
       !.callers[c] = [IdleCaller EXCEPT !.calls = fhe.callers[c].calls + 1]]
  /\ UNCHANGED <<cfg, ledgerUsed, rq, clock, call>>
  /\ FacUnchanged

\* fhevm.ts:69-72   clearFHEVMCache
ClearCache ==
  /\ fhe.clears < MaxClears
  /\ fhe' = [fhe EXCEPT
       !.clientCache = <<>>,
       !.isInitialized = FALSE,
       !.clears = @ + 1,
       !.sinceClear = "cleared",
       !.done = {},
       !.callers = [c \in Callers |-> [@[c] EXCEPT !.since = {}]]]
  /\ UNCHANGED <<cfg, ledgerUsed, rq, clock, call>>
  /\ FacUnchanged

\* fhevm.ts:77-83   getFHEVMCacheStats
getFHEVMCacheStats ==
  [isInitialized |-> fhe.isInitialized,
   cachedClients |-> Cardinality(DOMAIN fhe.clientCache),
   cacheKeys |-> DOMAIN fhe.clientCache]

PoolNext ==
  \/ CacheNext
  \/ \E c \in Callers : CallReturned(c)
  \/ ClearCache

\* callers use getFHEVMClient again and again while the cache is cleared
PoolSpec == CacheInit /\ [][PoolNext]_vars

\* ================================================================== claims
Events(r) == {rq[r].trace[i] : i \in 1..Len(rq[r].trace)}

\* position of the first event e in the trace of r, 0 if there is none
FirstAt(r, e) ==
  LET at == {i \in 1..Len(rq[r].trace) : rq[r].trace[i] = e}
  IN IF at = {} THEN 0 ELSE CHOOSE i \in at : \A j \in at : i <= j

Done(r) == rq[r].pc = "done"

VerifiedValid(r) == ~IsNone(rq[r].verification) /\ rq[r].verification.isValid

ResourceSucceeded(r) ==
  ~IsNone(rq[r].res) /\ rq[r].res.status < ERROR_STATUS_FLOOR

SettledOk(r) ==
  /\ ~IsNone(rq[r].settlement)
  /\ rq[r].settlement.kind = "return"
  /\ rq[r].settlement.value.success

SettleFailed(r) ==
  Done(r) /\ ResourceSucceeded(r) /\ ~IsNone(rq[r].settlement) /\ ~SettledOk(r)

HasReceiptHeader(response) == "X-PAYMENT-RESPONSE" \in DOMAIN response.headers

\* C1: within one request, settlement (the settle call, the ledger write) is
\* reached only after verification of the same decoded payload returned
\* isValid = true; a request whose verification was rejected or could not be
\* made never reaches settlement.
C1_SettleOnlyAfterValidVerify ==
  \A r \in Requests :
    /\ ("settle" \in Events(r) \/ "transferWithAuthorization" \in Events(r)
        \/ ~IsNone(rq[r].settleArg))
       => /\ VerifiedValid(r)
          /\ rq[r].settleArg = rq[r].verifyArg
          /\ 0 < FirstAt(r, "verify")
          /\ FirstAt(r, "verify") < FirstAt(r, "settle")
    /\ rq[r].rejected \in {"verification_failed", "verify_unavailable"}
       => /\ IsNone(rq[r].settleArg)
          /\ Events(r) \cap {"next", "settle", "transferWithAuthorization"} = {}

C1_Witness ==
  \E r \in Requests :
    Done(r) /\ VerifiedValid(r) /\ "transferWithAuthorization" \in Events(r)

\* C3: when verification succeeded and the resource operation ended with a
\* status of 400 or above, settlement is never invoked and the response is
\* the resource operation's own response, with no X-PAYMENT-RESPONSE header.
C3_FailedResourceNeverSettled ==
  \A r \in Requests :
    (Done(r) /\ VerifiedValid(r) /\ ~IsNone(rq[r].res)
     /\ rq[r].res.status >= ERROR_STATUS_FLOOR)
    => /\ IsNone(rq[r].settleArg)
       /\ IsNone(rq[r].settlement)
       /\ Events(r) \cap {"settle", "transferWithAuthorization"} = {}
       /\ rq[r].response = rq[r].res
       /\ ~HasReceiptHeader(rq[r].response)

C3_Witness ==
  \E r \in Requests :
    Done(r) /\ VerifiedValid(r) /\ ~IsNone(rq[r].res)
    /\ rq[r].res.status = ERROR_STATUS_FLOOR

\* the reason of a failed settlement as the middleware learns it: the
\* errorReason of the SettleResult, or the message of the error raised
FailureReason(settlement) ==
  IF settlement.kind = "return" THEN settlement.value.errorReason
  ELSE IF settlement.kind = "failed" THEN settlement.message
  ELSE TYPE_ERROR

\* no part of the resource operation's successful output is in the response
NoResourceOutput(r) ==
  /\ rq[r].response # rq[r].res
  /\ rq[r].response.body # rq[r].res.body
  /\ DOMAIN rq[r].response.body \cap DOMAIN rq[r].res.body = {}

\* C4 as stated: a failed settlement after a successful resource operation
\* ends in a 402 whose error is the settlement error reason, with the
\* PaymentRequirements and none of the resource output.
C4_Original ==
  \A r \in Requests :
    SettleFailed(r)
    => /\ rq[r].response.status = PAYMENT_REQUIRED_STATUS
       /\ rq[r].response.body.error = FailureReason(rq[r].settlement)
       /\ rq[r].response.body.accepts = <<rq[r].paymentRequirements>>
       /\ NoResourceOutput(r)

\* C4, amended: a failed settlement after a successful resource operation
\* ends in a 402 whose error is the route's configured settlementFailed
\* message when the route configures one and the settlement error reason
\* otherwise, with the PaymentRequirements and none of the resource output;
\* the protected content is delivered only with a successful SettleResult.
C4_FailedSettlementRejects ==
  \A r \in Requests :
    /\ SettleFailed(r)
       => /\ rq[r].response.status = PAYMENT_REQUIRED_STATUS
          /\ rq[r].response.body.error =
               (IF Has(cfg.errorMessages, "settlementFailed")
                THEN cfg.errorMessages.settlementFailed
                ELSE FailureReason(rq[r].settlement))
          /\ rq[r].response.body.accepts = <<rq[r].paymentRequirements>>
          /\ NoResourceOutput(r)
    /\ (Done(r) /\ rq[r].route # 0 /\ ResourceSucceeded(r)
        /\ rq[r].response.body = rq[r].res.body)
       => SettledOk(r)

C4_Witness ==
  \E r \in Requests :
    /\ SettleFailed(r)
    /\ rq[r].settlement.kind = "return"
    /\ rq[r].settlement.value.errorReason = "insufficient_balance"
    /\ rq[r].settlement.value.transaction # ""

\* C5: verification succeeded, the resource operation succeeded and
\* settlement returned success = true: the response is the resource
\* operation's response (status, body, its headers) plus X-PAYMENT-RESPONSE.
C5_SuccessKeepsResourceResponse ==
  \A r \in Requests :
    (Done(r) /\ VerifiedValid(r) /\ ResourceSucceeded(r) /\ SettledOk(r))
    => /\ rq[r].response.status = rq[r].res.status
       /\ rq[r].response.body = rq[r].res.body
       /\ HasReceiptHeader(rq[r].response)
       /\ \A h \in DOMAIN rq[r].res.headers :
            /\ h \in DOMAIN rq[r].response.headers
            /\ rq[r].response.headers[h] = rq[r].res.headers[h]

C5_Witness ==
  \E r \in Requests :
    /\ Done(r) /\ VerifiedValid(r) /\ ResourceSucceeded(r) /\ SettledOk(r)
    /\ Has(rq[r].settlement.value, "transferredAmount")

\* C6: the X-PAYMENT-RESPONSE header of a successful settlement decodes into
\* the settlement metadata (success, transaction, network, payer) of the
\* SettleResult of this request.
C6_ReceiptDecodesToSettlement ==
  \A r \in Requests :
    (Done(r) /\ SettledOk(r) /\ HasReceiptHeader(rq[r].response))
    => LET d == decodePaymentPayload(rq[r].response.headers["X-PAYMENT-RESPONSE"])
           s == rq[r].settlement.value
       IN /\ d.ok
          /\ {"success", "transaction", "network", "payer"} \subseteq DOMAIN d.val
          /\ d.val.success = s.success
          /\ d.val.transaction = s.transaction
          /\ d.val.network = s.network
          /\ d.val.payer = s.payer

\* C7: a request to a protected route without X-PAYMENT is answered at once
\* with a 402 whose accepts holds exactly the requirements of this request
\* (resource = the request URL) and x402Version; nothing else is invoked.
C7_NoPaymentChallenged ==
  \A r \in Requests :
    (rq[r].pc # "idle" /\ rq[r].route # 0 /\ rq[r].header = NO_HEADER)
    => /\ Done(r)
       /\ rq[r].trace = <<"respond">>
       /\ rq[r].response.status = PAYMENT_REQUIRED_STATUS
       /\ Len(rq[r].response.body.accepts) = 1
       /\ rq[r].response.body.accepts[1].resource = rq[r].url
       /\ rq[r].response.body.accepts[1].payTo = PAY_TO
       /\ Has(rq[r].response.body, "x402Version")
       /\ rq[r].response.body.x402Version = X402_VERSION

C7_Witness ==
  \E r \in Requests :
    Done(r) /\ rq[r].header = NO_HEADER /\ rq[r].url = URL_WEATHER

\* C8: every rejection the middleware produces (no payment, decode failure,
\* verification rejection, remote verify failure, settlement failure) is a
\* 402 whose accepts carries the requirements built for this request.
C8_RejectionsCarryRequirements ==
  \A r \in Requests :
    /\ rq[r].rejected # ""
       => /\ Done(r)
          /\ rq[r].response.status = PAYMENT_REQUIRED_STATUS
          /\ Has(rq[r].response.body, "accepts")
          /\ rq[r].response.body.accepts =
               <<BuildPaymentRequirements(Routes[rq[r].route], rq[r].url,
                                          PAY_TO, CONTRACT_ADDRESS)>>
          /\ rq[r].response.body.accepts[1].resource = rq[r].url
    /\ (Done(r) /\ rq[r].route # 0 /\ rq[r].response.status = PAYMENT_REQUIRED_STATUS)
       => rq[r].rejected # ""

C8_Witness ==
  \E r \in Requests :
    rq[r].rejected = "invalid_payment" /\ rq[r].url = URL_WEATHER

\* C9: no failure escapes the middleware as an unhandled exception: whatever
\* the decoded header value has or lacks, the request ends in a response.
C9_NoUnhandledException ==
  \A r \in Requests : rq[r].pc # "crashed"

\* C10: what decodePaymentPayload returns, and so what reaches the verifier,
\* is a PaymentPayload with every required field present.
C10_DecodeYieldsCompletePayload ==
  \A r \in Requests :
    ~IsNone(rq[r].verifyArg) => IsCompletePayload(rq[r].verifyArg)

\* C2: at the facilitator, a SettleResult is produced for, and the ledger is
\* sent, only a payload that POST /verify answered isValid = true before.
C2_FacilitatorSettlesOnlyVerified ==
  /\ facSettled \subseteq facVerified
  /\ facSubmitted \subseteq facVerified

RecordedCalls == IF call.fn = "verify" THEN {call.ref, call.cur} ELSE {}

\* the payload and the requirements are well formed: every field present,
\* timestamps in decimal digits, addresses that are addresses
WellFormedInputs ==
  /\ call.fn = "verify"
  /\ IsCompletePayload(call.payload)
  /\ IsDecimal(call.payload.payload.authorization.validAfter)
  /\ IsDecimal(call.payload.payload.authorization.validBefore)
  /\ call.payload.payload.authorization.from \in WellFormedAddresses
  /\ call.payload.payload.authorization.to \in WellFormedAddresses
  /\ call.requirements.payTo \in WellFormedAddresses

\* the signature that authenticates exactly the authorization fields of the
\* payload, by authorization.from, under the domain of the requirements
ExpectedSignature ==
  LET a == call.payload.payload.authorization
      q == call.requirements
  IN [signer |-> checksumAddress(a.from),
      domain |-> [name |-> IF Has(q, "extra") THEN q.extra.name
                           ELSE "ConfidentialUSD",
                  version |-> IF Has(q, "extra") THEN q.extra.version ELSE "1",
                  chainId |-> CHAIN_IDS[q.network],
                  verifyingContract |-> checksumAddress(q.asset)],
      message |-> [from |-> checksumAddress(a.from),
                   to |-> checksumAddress(a.to),
                   encryptedValueHandle |-> a.encryptedValueHandle,
                   validAfter |-> ParseDecimal(a.validAfter),
                   validBefore |-> ParseDecimal(a.validBefore),
                   nonce |-> a.nonce]]

\* the rejection reasons, in the order of the checks
Reasons ==
  <<"unsupported_scheme", "invalid_network", "authorization_not_yet_valid",
    "authorization_expired", "nonce_already_used", "invalid_signature",
    "recipient_mismatch">>

\* does check k fail for the recorded call c (for well-formed inputs)?  The
\* replay check fails when the pair is consumed on the ledger and the query,
\* if made, did not raise.
CheckFails(k, c) ==
  LET p == call.payload
      a == call.payload.payload.authorization
  IN CASE k = 1 -> p.scheme # "exact-confidential"
       [] k = 2 -> p.network # call.requirements.network
       [] k = 3 -> ParseDecimal(a.validAfter) > c.now
       [] k = 4 -> ParseDecimal(a.validBefore) < c.now + SAFETY_MARGIN
       [] k = 5 -> <<a.from, a.nonce>> \in c.ledger /\ c.answer # "error"
       [] k = 6 -> p.payload.signature # ExpectedSignature
       [] k = 7 -> checksumAddress(a.to) # checksumAddress(call.requirements.payTo)

FailingChecks(c) == {k \in 1..Len(Reasons) : CheckFails(k, c)}

FirstFailing(c) ==
  CHOOSE k \in FailingChecks(c) : \A j \in FailingChecks(c) : k <= j

\* C12: the checks are made in the order scheme, network, validAfter,
\* validBefore, nonce replay, signature, recipient; the result carries the
\* reason of the earliest check that fails, whatever later checks fail too,
\* and isValid = true is returned exactly when no check fails.
C12_FirstFailingCheckReported ==
  WellFormedInputs
  => \A c \in RecordedCalls :
       /\ c.outcome.kind = "return"
       /\ c.outcome.value.isValid <=> FailingChecks(c) = {}
       /\ FailingChecks(c) # {}
          => /\ Has(c.outcome.value, "invalidReason")
             /\ c.outcome.value.invalidReason = Reasons[FirstFailing(c)]

C12_Witness ==
  /\ WellFormedInputs
  /\ {2, 3, 4, 5, 6, 7} \subseteq FailingChecks(call.cur)
  /\ call.cur.outcome.value.invalidReason = "invalid_network"

\* the rejection reason of a recorded call, "" when it accepted or raised
ReasonOf(c) ==
  IF c.outcome.kind = "return" /\ Has(c.outcome.value, "invalidReason")
  THEN c.outcome.value.invalidReason ELSE ""

\* the recorded call returned isValid = true
Accepts(c) == c.outcome.kind = "return" /\ c.outcome.value.isValid

\* C13: a call that rejects for the scheme, the network or either end of
\* the time window returns without having sent the isNonceUsed query.
C13_LocalRejectionMakesNoQuery ==
  \A c \in RecordedCalls :
    ReasonOf(c) \in {"unsupported_scheme", "invalid_network",
                     "authorization_not_yet_valid", "authorization_expired"}
    => ~c.asked /\ c.answer = "none"

C13_Witness ==
  /\ call.fn = "verify"
  /\ call.ref.asked /\ Accepts(call.ref)
  /\ ReasonOf(call.cur) = "authorization_expired" /\ ~call.cur.asked

\* scheme and network match and both timestamps are decimal text
WindowIsChecked ==
  /\ call.fn = "verify"
  /\ IsCompletePayload(call.payload)
  /\ call.payload.scheme = "exact-confidential"
  /\ call.payload.network = call.requirements.network
  /\ IsDecimal(call.payload.payload.authorization.validAfter)
  /\ IsDecimal(call.payload.payload.authorization.validBefore)

\* C14: with scheme and network matching, the result is
\* authorization_not_yet_valid exactly when validAfter > now, and otherwise
\* authorization_expired exactly when validBefore < now + 6; validAfter = now
\* and validBefore = now + 6 pass, validBefore = now - 1 is expired.
C14_WindowBoundaries ==
  WindowIsChecked
  => LET validAfter == ParseDecimal(call.payload.payload.authorization.validAfter)
         validBefore == ParseDecimal(call.payload.payload.authorization.validBefore)
     IN \A c \in RecordedCalls :
          /\ ReasonOf(c) = "authorization_not_yet_valid" <=> validAfter > c.now
          /\ validAfter <= c.now
             => (ReasonOf(c) = "authorization_expired"
                 <=> validBefore < c.now + SAFETY_MARGIN)
          /\ (validAfter = c.now /\ validBefore = c.now + SAFETY_MARGIN)
             => ReasonOf(c) \notin {"authorization_not_yet_valid",
                                    "authorization_expired"}
          /\ (validAfter <= c.now /\ validBefore = c.now - 1)
             => /\ c.outcome.kind = "return" /\ ~c.outcome.value.isValid
                /\ ReasonOf(c) = "authorization_expired"

C14_Witness ==
  /\ WindowIsChecked
  /\ ParseDecimal(call.payload.payload.authorization.validAfter) = call.ref.now
  /\ ParseDecimal(call.payload.payload.authorization.validBefore)
       = call.ref.now + SAFETY_MARGIN
  /\ Accepts(call.ref)
  /\ ReasonOf(call.cur) = "authorization_expired"

\* C15: when the isNonceUsed query raises, the call is not rejected for it
\* and goes on to the signature and recipient checks: its result is the one
\* an answer of "unused" gives; nonce_already_used is returned only when the
\* query answered true.
C15_ReplayCheckFailsOpen ==
  \A c \in RecordedCalls :
    /\ c.answer = "error"
       => /\ c.outcome = verifyConfidentialPayment(call.payload,
                                                   call.requirements,
                                                   c.now, "unused")
          /\ ReasonOf(c) # "nonce_already_used"
    /\ ReasonOf(c) = "nonce_already_used" => c.answer = "used"

C15_Witness ==
  /\ call.fn = "verify"
  /\ call.ref.answer = "used" /\ ReasonOf(call.ref) = "nonce_already_used"
  /\ call.cur.answer = "error" /\ call.cur.asked
  /\ call.cur.ledger = call.ref.ledger
  /\ Accepts(call.cur)

\* the recorded call c passed the scheme, network, window and replay checks
ReachesSignatureCheck(c) ==
  /\ WindowIsChecked
  /\ \A k \in 1..4 : ~CheckFails(k, c)
  /\ c.answer \in {"unused", "error"}

\* the signature check raises: the signature or the signer's address is
\* malformed
SignatureCheckRaises ==
  \/ Has(call.payload.payload.signature, "malformed")
  \/ call.payload.payload.authorization.from \notin WellFormedAddresses

\* C16: a payload that passes the scheme, network, window and replay checks
\* is rejected with invalid_signature whenever its signature does not
\* authenticate exactly the authorization fields under the domain of the
\* requirements with signer authorization.from, and whenever the signature
\* verification raises.
C16_BadSignatureRejected ==
  \A c \in RecordedCalls :
    (ReachesSignatureCheck(c)
     /\ (SignatureCheckRaises
         \/ call.payload.payload.signature # ExpectedSignature))
    => /\ c.outcome.kind = "return"
       /\ ~c.outcome.value.isValid
       /\ ReasonOf(c) = "invalid_signature"

C16_Witness ==
  /\ call.fn = "verify"
  /\ ReachesSignatureCheck(call.cur)
  /\ call.payload = WrongSignerPayload
  /\ call.requirements = FacRequirements
  /\ ReasonOf(call.cur) = "invalid_signature"

\* two spellings name the same address (they differ in letter case at most)
SameAddress(a, b) == checksumAddress(a) = checksumAddress(b)

\* C17: a payload whose authorization.to is not requirements.payTo is never
\* accepted; when every earlier check passes, a valid signature included,
\* the result is recipient_mismatch; spellings of one address that differ
\* in letter case only are taken as equal.
C17_RecipientMustMatch ==
  (call.fn = "verify" /\ IsCompletePayload(call.payload))
  => \A c \in RecordedCalls :
       LET to == call.payload.payload.authorization.to
           payTo == call.requirements.payTo
           earlierPass == WellFormedInputs /\ \A k \in 1..6 : ~CheckFails(k, c)
       IN /\ ~SameAddress(to, payTo) => ~Accepts(c)
          /\ (earlierPass /\ ~SameAddress(to, payTo))
             => /\ c.outcome.kind = "return"
                /\ ~c.outcome.value.isValid
                /\ ReasonOf(c) = "recipient_mismatch"
          /\ (earlierPass /\ SameAddress(to, payTo)) => Accepts(c)

C17_Witness ==
  /\ WellFormedInputs
  /\ call.payload.payload.signature = ExpectedSignature
  /\ call.payload.payload.authorization.to = BOB
  /\ call.requirements.payTo = PAYEE
  /\ ReasonOf(call.cur) = "recipient_mismatch"

\* o.payer is what the authorization has as from: the same value, or both
\* are missing
PayerIsFrom(o, authorization) ==
  IF Has(authorization, "from")
  THEN Has(o, "payer") /\ o.payer = authorization.from
  ELSE ~Has(o, "payer")

C20_Original ==
  (call.fn = "verify" /\ ReasonOf(call.ref) # "")
  => ReasonOf(call.cur) = ReasonOf(call.ref)

\* C20, amended: a rejection for the scheme, the network or an expired
\* authorization is repeated with the same reason on every later attempt;
\* a rejection for the signature or the recipient is followed by rejections
\* only, with the same reason unless an earlier check has come to fail
\* (expired, nonce used).  authorization_not_yet_valid and
\* nonce_already_used are not permanent.
C20_PermanentRejections ==
  call.fn = "verify"
  => /\ ReasonOf(call.ref) \in {"unsupported_scheme", "invalid_network",
                                "authorization_expired"}
        => ReasonOf(call.cur) = ReasonOf(call.ref)
     /\ ReasonOf(call.ref) \in {"invalid_signature", "recipient_mismatch"}
        => /\ ~Accepts(call.cur)
           /\ ReasonOf(call.cur) \in {ReasonOf(call.ref), "authorization_expired",
                                      "nonce_already_used"}

C20_Witness ==
  /\ call.fn = "verify"
  /\ call.ref.now < call.cur.now
  /\ ReasonOf(call.ref) = "invalid_signature"
  /\ ReasonOf(call.cur) = "authorization_expired"

\* the events of the trace of r after its first event e
EventsAfter(r, e) ==
  {rq[r].trace[i] : i \in (FirstAt(r, e) + 1)..Len(rq[r].trace)}

\* the isNonceUsed query of request r answered true: the ledger holds the
\* (from, nonce) pair of its payload, consumed by an earlier settlement
AnsweredUsed(r) == rq[r].isUsed

\* C21: when a (from, nonce) pair is submitted again and the ledger
\* reflects the first settlement (isNonceUsed answers true), verification
\* returns nonce_already_used and the request is rejected with a 402 before
\* the resource operation or the settlement runs.
C21_ReplayRejectedBeforeResource ==
  \A r \in Requests :
    AnsweredUsed(r) =>
      /\ NoncePair(rq[r].decodedPayment) \in ledgerUsed
      /\ Done(r)
      /\ rq[r].rejected \in {"verification_failed", "verify_unavailable"}
      /\ rq[r].response.status = PAYMENT_REQUIRED_STATUS
      /\ ~IsNone(rq[r].verification) =>
            /\ ~rq[r].verification.isValid
            /\ rq[r].verification.invalidReason = "nonce_already_used"
      /\ cfg.mode = "local" => ~IsNone(rq[r].verification)
      /\ EventsAfter(r, "verify") \subseteq {"isNonceUsed", "respond"}
      /\ IsNone(rq[r].res) /\ IsNone(rq[r].settleArg) /\ IsNone(rq[r].submitted)

\* a request replays Alice's consumed authorization and is turned away with
\* nonce_already_used
C21_Witness ==
  \E r \in Requests :
    /\ AnsweredUsed(r)
    /\ rq[r].decodedPayment = Signed(AUTH_ALICE)
    /\ ~IsNone(rq[r].verification)
    /\ rq[r].verification.invalidReason = "nonce_already_used"
    /\ rq[r].rejected = "verification_failed"

\* the settlement call of request r returned a SettleResponse
SettlementResult(r) ==
  ~IsNone(rq[r].settlement) /\ rq[r].settlement.kind = "return"

\* the ledger write of request r was sent and it, or the wait for the
\* receipt, raised
LedgerCallFailed(r) ==
  /\ SettlementResult(r)
  /\ "transferWithAuthorization" \in Events(r)
  /\ rq[r].env.write = "throw" \/ rq[r].env.receipt = "throw"

\* the reason the failure text stands for: the three known phrases, and
\* unknown_error for any other text
ReasonOfFailureText(message) ==
  IF Includes(message, "insufficient balance") THEN "insufficient_balance"
  ELSE IF Includes(message, "already used") THEN "nonce_already_used"
  ELSE IF Includes(message, "Invalid signature") THEN "invalid_signature"
  ELSE "unknown_error"

\* C22: when the ledger submission or the wait for finality fails, the
\* SettleResponse has success = false, the reason mapped from the failure
\* text (unknown_error for a text that is not recognised), and as
\* transaction the hash of the submission whenever the submission produced
\* one, the empty text only when it produced none.
C22_FailureKeepsTransactionReference ==
  \A r \in Requests :
    LedgerCallFailed(r) =>
      LET result == rq[r].settlement.value IN
      /\ ~result.success
      /\ result.errorReason = ReasonOfFailureText(rq[r].env.message)
      /\ result.transaction =
           IF rq[r].env.write = "ok" THEN TxHash(r) ELSE ""

\* the fixed taxonomy of reasons, in the spelling the code tags them with
Taxonomy ==
  {"payment_required", "malformed_payload", "unsupported_scheme",
   "invalid_network", "authorization_not_yet_valid", "authorization_expired",
   "nonce_already_used", "invalid_signature", "recipient_mismatch",
   "insufficient_balance", "partial_transfer", "transaction_reverted",
   "unknown_error"}

\* C23: every invalidReason verification produces and every errorReason
\* settlement produces is a member of the fixed taxonomy; a ledger failure
\* that is not recognised is reported as unknown_error, never as free text.
C23_ReasonsWithinTaxonomy ==
  \A r \in Requests :
    /\ (~IsNone(rq[r].verification) /\ Has(rq[r].verification, "invalidReason"))
         => rq[r].verification.invalidReason \in Taxonomy
    /\ (SettlementResult(r) /\ Has(rq[r].settlement.value, "errorReason"))
         => rq[r].settlement.value.errorReason \in Taxonomy

\* the ledger confirmed the transaction of request r with status success
\* and the SettleResponse came back
ConfirmedOnLedger(r) ==
  /\ SettlementResult(r)
  /\ ~IsNone(rq[r].submitted)
  /\ rq[r].env.write = "ok" /\ rq[r].env.receipt = "success"

\* the receipt of request r held the event and its amount was decrypted
AmountDecrypted(r) ==
  ConfirmedOnLedger(r) /\ rq[r].env.event /\ rq[r].env.decrypt = "ok"

\* maxAmountRequired of the requirements of request r, as a number
MaxAmountRequired(r) == BigInt(rq[r].paymentRequirements.maxAmountRequired).val

\* C24: with the decrypted transferred amount t available, settlement
\* returns success = false with insufficient_balance when t = 0, success =
\* false with partial_transfer and transferredAmount = t when
\* 0 < t < maxAmountRequired, and success = true with transferredAmount = t
\* when t >= maxAmountRequired (t equal to it included); so every successful
\* SettleResponse carrying a transferredAmount carries one that is at least
\* maxAmountRequired.
C24_TransferredAmountInterpreted ==
  \A r \in Requests :
    /\ AmountDecrypted(r) =>
         LET t == rq[r].env.transferred
             result == rq[r].settlement.value
         IN /\ t = 0 =>
                 /\ ~result.success
                 /\ result.errorReason = "insufficient_balance"
            /\ (0 < t /\ t < MaxAmountRequired(r)) =>
                 /\ ~result.success
                 /\ result.errorReason = "partial_transfer"
                 /\ result.transferredAmount = ToDecimal(t)
            /\ (0 < t /\ t >= MaxAmountRequired(r)) =>
                 /\ result.success
                 /\ ~Has(result, "errorReason")
                 /\ result.transferredAmount = ToDecimal(t)
    /\ (SettlementResult(r) /\ rq[r].settlement.value.success
         /\ Has(rq[r].settlement.value, "transferredAmount")) =>
         BigInt(rq[r].settlement.value.transferredAmount).val
           >= MaxAmountRequired(r)

\* a settlement whose decrypted amount is exactly maxAmountRequired succeeds
C24_Witness ==
  \E r \in Requests :
    /\ AmountDecrypted(r)
    /\ rq[r].env.transferred = MaxAmountRequired(r)
    /\ rq[r].env.transferred > 0
    /\ rq[r].settlement.value.success
    /\ rq[r].settlement.value.transferredAmount = ToDecimal(MaxAmountRequired(r))

\* the decryption collaborator of request r raised after the ledger
\* confirmed the transaction
DecryptionFailed(r) ==
  /\ ConfirmedOnLedger(r) /\ rq[r].env.event
  /\ "decrypt" \in Events(r)
  /\ rq[r].env.decrypt = "throw"

\* the SettleResponse of the unverifiable success: success = true, the
\* hash of the transaction, no transferredAmount and no errorReason
UnverifiableSuccess(r) ==
  LET result == rq[r].settlement.value IN
  /\ result.success
  /\ result.transaction = TxHash(r)
  /\ ~Has(result, "transferredAmount")
  /\ ~Has(result, "errorReason")

\* C25: a failure of the decryption collaborator after the ledger confirmed
\* the transaction is not a settlement failure: the SettleResponse has
\* success = true, the transaction reference set, and no transferredAmount.
C25_DecryptionFailureIsSuccess ==
  \A r \in Requests : DecryptionFailed(r) => UnverifiableSuccess(r)

\* the decryption raised and the local middleware attached the receipt to
\* the resource response
C25_Witness ==
  \E r \in Requests :
    /\ DecryptionFailed(r)
    /\ rq[r].settlement.value.success
    /\ rq[r].settlement.value.transaction = TxHash(r)
    /\ HasReceiptHeader(rq[r].response)

\* the receipt of request r was a success without the AuthorizationUsed event
EventMissing(r) == ConfirmedOnLedger(r) /\ ~rq[r].env.event

\* C26: when the ledger confirmed the transaction with status success and
\* the receipt holds no AuthorizationUsed event, the SettleResponse has
\* success = true, the transaction reference and no transferredAmount, and
\* the decryption collaborator is not called.
C26_MissingEventIsUnverifiedSuccess ==
  \A r \in Requests :
    EventMissing(r) =>
      /\ UnverifiableSuccess(r)
      /\ "decrypt" \notin Events(r)

\* a confirmed transaction without the event, settled as a success
C26_Witness ==
  \E r \in Requests :
    /\ EventMissing(r)
    /\ NoncePair(rq[r].settleArg) \in ledgerUsed
    /\ rq[r].settlement.value.success
    /\ "decrypt" \notin Events(r)
    /\ Done(r)

\* the clients createFHEVMClient delivered for a cache key
ClientsCreatedFor(key) ==
  {i \in 1..Len(fhe.created) : fhe.created[i] = key}

\* C27: under concurrent first use the SDK initialization runs at most
\* once, at most one client is created per cache key, and all callers with
\* the same key receive the same client instance.
C27_SingleInitializationWins ==
  /\ fhe.inits <= 1
  /\ \A config \in FhevmConfigs :
       Cardinality(ClientsCreatedFor(CacheKey(config))) <= 1
  /\ \A c, d \in Callers :
       (/\ fhe.callers[c].pc = "returned" /\ fhe.callers[d].pc = "returned"
        /\ fhe.callers[c].config = fhe.callers[d].config)
       => fhe.callers[c].client = fhe.callers[d].client

\* request r matched a protected route
Protected(r) == rq[r].route # 0

\* C28: for every request to a protected route the PaymentRequirements has
\* resource exactly equal to the URL of that request, is built from the
\* matched route's configuration for that request, and is the same value in
\* the 402 body, in the verification call and in the settlement call.
C28_RequirementsBoundToRequest ==
  \A r \in Requests :
    Protected(r) =>
      LET requirements == rq[r].paymentRequirements IN
      /\ requirements.resource = rq[r].url
      /\ requirements =
           [BuildPaymentRequirements(Routes[rq[r].route], rq[r].url,
                                     PAY_TO, CONTRACT_ADDRESS)
              EXCEPT !.resource = rq[r].url]
      /\ ~IsNone(rq[r].verifyReq) => rq[r].verifyReq = requirements
      /\ ~IsNone(rq[r].settleReq) => rq[r].settleReq = requirements
      /\ (Done(r) /\ rq[r].rejected # "") =>
           rq[r].response.body.accepts = <<requirements>>

\* a request whose URL has a query was verified and submitted for
\* settlement, and the settlement failure was answered 402
C28_Witness ==
  \E r \in Requests :
    /\ Protected(r)
    /\ rq[r].url = URL_WEATHER /\ rq[r].url.search # ""
    /\ ~IsNone(rq[r].verifyReq) /\ ~IsNone(rq[r].settleReq)
    /\ ~IsNone(rq[r].submitted)
    /\ rq[r].rejected = "settlement_failed"
    /\ rq[r].response.body.accepts[1].resource = URL_WEATHER

\* the steps of one request, in the order the middleware takes them
StepOrder ==
  <<"decode", "verify", "next", "settle", "transferWithAuthorization",
    "respond">>

\* how many times event e occurs in the trace of r
Occurrences(r, e) ==
  Cardinality({i \in 1..Len(rq[r].trace) : rq[r].trace[i] = e})

\* C29: within one request the steps run one after the other and at most
\* once each, in the order decode, verify, resource operation, settle,
\* respond: verification has returned before the resource operation starts,
\* the resource operation has finished before settlement is submitted, and
\* the request makes at most one verification and at most one ledger
\* submission.
C29_StepsSequentialAtMostOnce ==
  \A r \in Requests :
    /\ \A e \in Events(r) : Occurrences(r, e) = 1
    /\ \A i, j \in 1..Len(StepOrder) :
         (i < j /\ StepOrder[i] \in Events(r) /\ StepOrder[j] \in Events(r))
         => FirstAt(r, StepOrder[i]) < FirstAt(r, StepOrder[j])
    /\ (Protected(r) /\ "next" \in Events(r)) =>
         /\ "verify" \in Events(r)
         /\ ~IsNone(rq[r].verification)
    /\ "settle" \in Events(r) =>
         /\ "next" \in Events(r)
         /\ ~IsNone(rq[r].res)
    /\ "transferWithAuthorization" \in Events(r) => "settle" \in Events(r)
    /\ "respond" \in Events(r) => rq[r].trace[Len(rq[r].trace)] = "respond"

\* a request that took every step: decoded, verified, served, submitted to
\* the ledger and answered
C29_Witness ==
  \E r \in Requests :
    /\ {StepOrder[i] : i \in 1..Len(StepOrder)} \subseteq Events(r)
    /\ "isNonceUsed" \in Events(r)
    /\ Done(r)

\* the arguments of the ledger write are the fields of the authorization,
\* the timestamps as the numbers their texts spell
SameAsAuthorization(arguments, authorization) ==
  /\ arguments.from = authorization.from
  /\ arguments.to = authorization.to
  /\ arguments.encryptedValueHandle = authorization.encryptedValueHandle
  /\ arguments.inputProof = authorization.inputProof
  /\ arguments.validAfter = BigInt(authorization.validAfter).val
  /\ arguments.validBefore = BigInt(authorization.validBefore).val
  /\ arguments.nonce = authorization.nonce

\* C30: settlement re-sends the payload unchanged: from, to,
\* encryptedValueHandle, inputProof, validAfter, validBefore and nonce given
\* to transferWithAuthorization are those of the decoded payload that was
\* verified, and the decoded payload and the requirements are the same
\* values at decoding, at the verification call, at the settlement call and
\* afterwards.
C30_PayloadResentUnchanged ==
  \A r \in Requests :
    /\ ~IsNone(rq[r].decodedPayment) =>
         rq[r].decodedPayment = decodePaymentPayload(rq[r].header).val
    /\ ~IsNone(rq[r].verifyArg) =>
         /\ rq[r].verifyArg = rq[r].decodedPayment
         /\ rq[r].verifyReq = rq[r].paymentRequirements
    /\ ~IsNone(rq[r].settleArg) =>
         /\ VerifiedValid(r)
         /\ rq[r].settleArg = rq[r].verifyArg
         /\ rq[r].settleArg = rq[r].decodedPayment
         /\ rq[r].settleReq = rq[r].verifyReq
         /\ rq[r].settleReq = rq[r].paymentRequirements
    /\ ~IsNone(rq[r].submitted) =>
         SameAsAuthorization(rq[r].submitted,
                             rq[r].verifyArg.payload.authorization)

\* a verified payload was submitted to the ledger and the settlement ended
C30_Witness ==
  \E r \in Requests :
    /\ VerifiedValid(r)
    /\ ~IsNone(rq[r].submitted)
    /\ rq[r].submitted.validBefore = 20
    /\ rq[r].submitted.inputProof = INPUT_PROOF
    /\ SettlementResult(r)
    /\ Done(r)

\* request r carries a decoded payload with the (from, nonce) pair
Carries(r, pair) ==
  ~IsNone(rq[r].decodedPayment) /\ NoncePair(rq[r].decodedPayment) = pair

\* request r delivered the protected content: its response is the resource
\* response, with the payment receipt attached
DeliversContent(r) ==
  /\ Done(r) /\ rq[r].rejected = ""
  /\ ~IsNone(rq[r].res)
  /\ rq[r].response.status < ERROR_STATUS_FLOOR
  /\ rq[r].response.body = rq[r].res.body

\* C31: of the requests handled concurrently with the same (from, nonce),
\* several may pass the replay check of verification, but with a ledger
\* that consumes each pair at most once at most one of them ends with a
\* SettleResponse with success = true and delivers the protected content;
\* any other that reached settlement ends in a 402.
C31_OneSettlementPerNonce ==
  \A r, q \in Racers :
    (/\ r # q
     /\ ~IsNone(rq[q].decodedPayment)
     /\ Carries(r, NoncePair(rq[q].decodedPayment))) =>
      /\ ~(SettledOk(r) /\ SettledOk(q))
      /\ ~(DeliversContent(r) /\ DeliversContent(q))
      /\ (SettledOk(r) /\ Done(q) /\ ~IsNone(rq[q].settleArg)) =>
           /\ rq[q].response.status = PAYMENT_REQUIRED_STATUS
           /\ rq[q].rejected = "settlement_failed"

\* two requests with Alice's payment both passed verification and both
\* wrote to the ledger; one was settled and served, the other answered 402
C31_Witness ==
  \E r, q \in Racers :
    /\ r # q
    /\ Carries(r, <<ALICE, "0xn1">>) /\ Carries(q, <<ALICE, "0xn1">>)
    /\ VerifiedValid(r) /\ VerifiedValid(q)
    /\ ~IsNone(rq[r].submitted) /\ ~IsNone(rq[q].submitted)
    /\ SettledOk(r) /\ DeliversContent(r)
    /\ Done(q) /\ rq[q].rejected = "settlement_failed"
    /\ rq[q].response.status = PAYMENT_REQUIRED_STATUS

\* the transaction of request r was mined with a status other than success
\* and the SettleResponse came back
MinedReverted(r) ==
  /\ SettlementResult(r)
  /\ ~IsNone(rq[r].submitted)
  /\ rq[r].env.write = "ok" /\ rq[r].env.receipt = "reverted"

\* C32: a transaction mined with a receipt status other than success gives
\* success = false, errorReason transaction_reverted and the hash of the
\* submitted transaction, and the decryption collaborator is not called;
\* decryption is attempted only after a receipt with status success that
\* holds the AuthorizationUsed event.
C32_RevertedKeepsHashNoDecryption ==
  \A r \in Requests :
    /\ MinedReverted(r) =>
         LET result == rq[r].settlement.value IN
         /\ ~result.success
         /\ result.errorReason = "transaction_reverted"
         /\ result.transaction = TxHash(r)
         /\ ~Has(result, "transferredAmount")
         /\ "decrypt" \notin Events(r)
    /\ ("decrypt" \in Events(r) \/ rq[r].pc = "decrypting") =>
         /\ rq[r].env.write = "ok"
         /\ rq[r].env.receipt = "success"
         /\ rq[r].env.event

\* a verified payment whose transaction reverted, answered 402
C32_Witness ==
  \E r \in Requests :
    /\ MinedReverted(r)
    /\ rq[r].settlement.value.transaction = TxHash(r)
    /\ rq[r].rejected = "settlement_failed"
    /\ NoncePair(rq[r].settleArg) \notin ledgerUsed

\* a call of settleConfidentialPayment has returned a SettleResponse
SettleReturned == call.fn = "settle" /\ call.out.kind = "return"

\* C33: the failure surfaces of settlement are kept apart: success = true
\* without a transferredAmount is returned only when the AuthorizationUsed
\* event was absent or the call of the decryption collaborator failed; a
\* failure of the comparison itself (maxAmountRequired that is no integer,
\* with a non-zero amount decrypted) is not reported that way.
C33_UnverifiedSuccessOnlyFromObservation ==
  (/\ SettleReturned
   /\ call.out.value.success
   /\ ~Has(call.out.value, "transferredAmount"))
  => /\ call.env.write = "ok" /\ call.env.receipt = "success"
     /\ ~call.env.event \/ call.env.decrypt = "throw"

\* the POST /verify call of request r could not be made, was answered with
\* a status that is not OK, or its body could not be read
VerifyCallFailed(r) ==
  /\ cfg.mode = "remote"
  /\ \/ rq[r].verifyNet \in NetOutcomes \ {"ok"}
     \/ rq[r].rejected = "verify_unavailable"

\* C34: the facilitator-backed middleware fails closed: when the remote
\* POST /verify call cannot be made, is answered with a non-OK status, or
\* its body cannot be read, the request is rejected with a 402 carrying the
\* PaymentRequirements and neither the resource operation nor the
\* settlement is invoked.
C34_RemoteVerifyFailsClosed ==
  \A r \in Requests :
    VerifyCallFailed(r) =>
      /\ Done(r)
      /\ rq[r].rejected = "verify_unavailable"
      /\ IsNone(rq[r].verification)
      /\ rq[r].response.status = PAYMENT_REQUIRED_STATUS
      /\ rq[r].response.body.accepts = <<rq[r].paymentRequirements>>
      /\ EventsAfter(r, "verify") \subseteq {"isNonceUsed", "respond"}
      /\ IsNone(rq[r].res) /\ IsNone(rq[r].settleArg) /\ IsNone(rq[r].submitted)

\* the facilitator accepted the payment but its answer could not be read:
\* the request is turned away
C34_Witness ==
  \E r \in Requests :
    /\ VerifyCallFailed(r)
    /\ rq[r].verifyNet = "bad_body"
    /\ rq[r].decodedPayment = Signed(AUTH_ALICE)
    /\ "isNonceUsed" \in Events(r)
    /\ ~rq[r].isUsed
    /\ rq[r].response.status = PAYMENT_REQUIRED_STATUS

\* a pattern covers a whole path when its characters are those of the path,
\* a * standing for any run of characters, the empty one included
RECURSIVE Covers(_, _)
Covers(pattern, path) ==
  IF pattern = <<>> THEN path = <<>>
  ELSE IF Head(pattern) = "*"
    THEN \E n \in 0..Len(path) :
           Covers(Tail(pattern), SubSeq(path, n + 1, Len(path)))
  ELSE /\ path # <<>>
       /\ Head(path) = Head(pattern)
       /\ Covers(Tail(pattern), Tail(path))

\* the configured routes whose pattern covers the path of request r
CoveringRoutes(r) ==
  {i \in 1..Len(Routes) : Covers(Routes[i].pattern, rq[r].url.pathname)}

C36_VerificationLeavesLedger ==
  [][call' # call => ledgerUsed' = ledgerUsed]_vars

\* an accepted verification that sent the isNonceUsed query, made again
\* after an earlier one, with the pair of the payload still not consumed
C36_Witness ==
  /\ call.fn = "verify"
  /\ call.payload = Signed(AUTH_ALICE)
  /\ call.cur.asked /\ Accepts(call.cur)
  /\ call.ref.asked /\ Accepts(call.ref)
  /\ call.ref.now < call.cur.now
  /\ NoncePair(call.payload) \notin ledgerUsed

\* ------------------------------------------------------------------ client
\* the two createPaymentHeader sources of the repository
ClientSources == {"createPaymentHeader.ts", "part_003"}

\* the token name signed for when the requirements name none:
\* createPaymentHeader.ts:73 and part_003:71
ClientDefaultName(source) ==
  IF source = "createPaymentHeader.ts" THEN "ConfidentialUSD"
  ELSE "Confidential USD"

\* createPaymentHeader.ts:72-77, part_003:70-75
ClientDomain(source, paymentRequirements, chainId) ==
  Domain(IF Has(paymentRequirements, "extra")
         THEN paymentRequirements.extra.name ELSE ClientDefaultName(source),
         IF Has(paymentRequirements, "extra")
         THEN paymentRequirements.extra.version ELSE "1",
         chainId, paymentRequirements.asset)

\* createPaymentHeader.ts:25-127, part_003:25-149: the header a wallet of
\* account from builds at time now with the random nonce drawn; the call
\* raises when the price is no integer text or the network is unknown
createPaymentHeader(source, from, paymentRequirements, now, nonce) ==
  LET chain == getChainId(paymentRequirements.network)
      to == paymentRequirements.payTo
      validAfter == now - VALID_AFTER_LEEWAY
      validBefore == now + paymentRequirements.maxTimeoutSeconds
      signature ==
        Sign(from, ClientDomain(source, paymentRequirements, chain.val),
             Message(from, to, HANDLE, validAfter, validBefore, nonce))
  IN
  IF ~BigInt(paymentRequirements.maxAmountRequired).ok THEN Throw
  ELSE IF ~chain.ok THEN Throw
  ELSE Return(encodePaymentPayload(
         PaymentPayload("exact-confidential", paymentRequirements.network,
           Authorization(from, to, ToDecimal(validAfter),
                         ToDecimal(validBefore), nonce),
           signature)))

\* the requirements a client is challenged with: the deployment's, with a
\* short timeout, without extra, for a token of another name, paid to
\* another spelling of the payee, on the other network, on a network the
\* table lacks, with a price that is no integer
ClientRequirements ==
  { FacRequirements,
    [FacRequirements EXCEPT !.maxTimeoutSeconds = ShortTimeout],
    WithoutExtra(FacRequirements),
    WithoutExtra([FacRequirements EXCEPT !.maxTimeoutSeconds = ShortTimeout]),
    [FacRequirements EXCEPT !.extra.name = "OtherUSD"],
    [FacRequirements EXCEPT !.payTo = PAYEE_UPPER],
    [FacRequirements EXCEPT !.network = "base"],
    [FacRequirements EXCEPT !.network = "mainnet"],
    [FacRequirements EXCEPT !.maxAmountRequired = <<"0", ".", "5">>] }

\* the random nonces drawn
ClientNonces == {"0xn1", "0xn3"}

\* createPaymentHeader.ts:25-127, part_003:25-149   one call of
\* createPaymentHeader by Alice's wallet
CreateHeader(source, paymentRequirements, nonce) ==
  /\ call = NoCall
  /\ call' = [fn |-> "pay", source |-> source,
              requirements |-> paymentRequirements, created |-> clock,
              built |-> createPaymentHeader(source, ALICE, paymentRequirements,
                                            clock, nonce),
              verified |-> FALSE, cur |-> None]
  /\ UNCHANGED <<cfg, ledgerUsed, rq, clock, fhe>>
  /\ FacUnchanged

\* encoding.ts:18-21, fhevm.ts:128-267   the header is decoded and verified
\* against the requirements it was built from
VerifyCreated ==
  /\ call.fn = "pay"
  /\ call.built.kind = "return"
  /\ LET payload == decodePaymentPayload(call.built.value).val IN
     \E answer \in VerifyAnswers(payload, call.requirements, clock) :
       call' = [call EXCEPT
                  !.verified = TRUE,
                  !.cur = VerifyRecord(payload, call.requirements, clock, answer)]
  /\ UNCHANGED <<cfg, ledgerUsed, rq, clock, fhe>>
  /\ FacUnchanged

\* Date.now(): time passes after the header was created
ClientTick ==
  /\ clock < ClientEpoch + MaxElapsed
  /\ clock' = clock + 1
  /\ UNCHANGED <<cfg, ledgerUsed, rq, call, fhe>>
  /\ FacUnchanged

ClientInit ==
  /\ cfg = [mode |-> "local", errorMessages |-> None]
  /\ ledgerUsed = {}
  /\ rq = [r \in Requests |-> IdleRequest]
  /\ facVerified = {}
  /\ facSubmitted = {}
  /\ facSettled = {}
  /\ clock = ClientEpoch
  /\ call = NoCall
  /\ fhe = FheLoaded

ClientNext ==
  \/ \E source \in ClientSources, req \in ClientRequirements,
        nonce \in ClientNonces : CreateHeader(source, req, nonce)
  \/ VerifyCreated
  \/ ClientTick
  \/ \E pair \in PriorPairs : NonceConsumed(pair)

\* a client builds a payment header and a verifier checks it later
ClientSpec == ClientInit /\ [][ClientNext]_vars

\* the payload the built header carries
BuiltPayload == decodePaymentPayload(call.built.value).val

\* the header was built and then verified with its nonce unused, less than
\* maxTimeoutSeconds - 6 seconds after its creation
VerifiedInTime ==
  /\ call.fn = "pay"
  /\ call.built.kind = "return"
  /\ call.verified
  /\ NoncePair(BuiltPayload) \notin call.cur.ledger
  /\ call.cur.now - call.created
       < call.requirements.maxTimeoutSeconds - SAFETY_MARGIN

\* C37: a payload built by createPaymentHeader from a PaymentRequirements
\* value is accepted by verifyConfidentialPayment against the same
\* requirements whenever its nonce is unused and the verification runs less
\* than maxTimeoutSeconds - 6 seconds after the creation, for every
\* requirements value, one without extra included.
C37_BuiltPayloadAccepted ==
  VerifiedInTime => Accepts(call.cur)

\* caller c has a completed call that started after a call with the same
\* key had completed with client k, with no clear in between
ReturnedAfter(c, k) ==
  /\ fhe.callers[c].pc = "returned"
  /\ <<CacheKey(fhe.callers[c].config), k>> \in fhe.callers[c].since

\* C38: once a call getFHEVMClient(config) has completed, every later call
\* with the same network and rpcUrl returns the same client instance
\* without creating a client and without running the SDK initialization,
\* until clearFHEVMCache is called; another network or rpcUrl has its own
\* cache entry.
C38_LaterCallsReuseClient ==
  /\ \A c \in Callers : \A k \in 1..Len(fhe.created) :
       ReturnedAfter(c, k) =>
         /\ fhe.callers[c].client = k
         /\ ~fhe.callers[c].made
         /\ ~fhe.callers[c].ranInit
  /\ \A c, d \in Callers :
       (/\ fhe.callers[c].pc = "returned" /\ fhe.callers[d].pc = "returned"
        /\ fhe.callers[c].config # fhe.callers[d].config)
       => fhe.callers[c].client # fhe.callers[d].client

\* C39: after clearFHEVMCache returned and until the next initialization
\* is started, getFHEVMCacheStats reports isInitialized = false and no
\* cached client, also when a call of getFHEVMClient was in flight at the
\* time of the clear.
C39_ClearResetsCache ==
  fhe.sinceClear = "cleared" =>
    /\ ~getFHEVMCacheStats.isInitialized
    /\ getFHEVMCacheStats.cachedClients = 0

\* ----------------------------------------------------------------- balances
\* balances of the token and amounts asked for
Amounts ==
  (0..BalanceSpread) \cup {MAX_MINT_AMOUNT + d : d \in 0..BalanceSpread}

\* what the collaborators of one balance read do: the contract read raises,
\* gives the zero handle or a ciphertext handle; the decryption raises or
\* gives the balance
BalanceEnvs ==
  {[read |-> "throw", decrypted |-> 0], [read |-> "zero", decrypted |-> 0]}
  \cup {[read |-> "handle", decrypted |-> d] : d \in Amounts \cup {-1}}

\* part_004:43-73   getConfidentialBalance; a decrypted value of -1 stands
\* for a decryption that raised
getConfidentialBalance(env) ==
  IF env.read = "throw" THEN Throw
  ELSE IF env.read = "zero" THEN Return(0)
  ELSE IF env.decrypted < 0 THEN Throw
  ELSE Return(env.decrypted)

\* what the collaborators of one mint do: the encryption, the write and the
\* wait for the receipt, each "ok" or "throw"; the receipt's status
MintEnvs ==
  [encrypt : {"ok", "throw"}, write : {"ok", "throw"},
   wait : {"ok", "throw"}, status : {"success", "reverted"}]

\* fault: the amount is minted as asked
MintAmountAsAsked(amount) == amount

\* part_004:99   amount > MAX_MINT_AMOUNT ? MAX_MINT_AMOUNT : amount
MintAmount(amount) ==
  IF amount > MAX_MINT_AMOUNT THEN MAX_MINT_AMOUNT ELSE amount

\* part_004:86-137   mintConfidentialTokens: minted holds the amount the
\* mint call was submitted with, out is how the function ends
mintConfidentialTokens(hasAccount, amount, env) ==
  IF ~hasAccount THEN [minted |-> <<>>, out |-> Throw]
  ELSE IF env.encrypt = "throw" THEN [minted |-> <<>>, out |-> Throw]
  ELSE IF env.write = "throw" THEN [minted |-> <<>>, out |-> Throw]
  ELSE IF env.wait = "throw" \/ env.status # "success"
    THEN [minted |-> <<MintAmount(amount)>>, out |-> Throw]
  ELSE [minted |-> <<MintAmount(amount)>>, out |-> Return("0xmint")]

\* part_004:150-161   ensureSufficientBalance is called and starts its first
\* balance read
EnsureCall(requiredAmount, hasAccount) ==
  /\ call = NoCall
  /\ call' = [fn |-> "balance", op |-> "ensure", pc |-> "reading",
              requiredAmount |-> requiredAmount, amount |-> 0,
              hasAccount |-> hasAccount, reads |-> <<>>, mints |-> <<>>,
              mintFailed |-> FALSE, rereadFailed |-> FALSE, out |-> None]
  /\ UNCHANGED <<cfg, ledgerUsed, rq, clock, fhe>>
  /\ FacUnchanged

\* part_004:161-176 and 192-206   a balance read ends: the first one outside
\* the try, the one after the mint inside it
BalanceRead(env) ==
  /\ call.fn = "balance" /\ call.pc = "reading"
  /\ LET balance == getConfidentialBalance(env)
         first == call.reads = <<>>
     IN
     call' =
       IF balance.kind = "throw"
       THEN IF first THEN [call EXCEPT !.pc = "done", !.out = Throw]
            ELSE [call EXCEPT !.pc = "done", !.rereadFailed = TRUE,
                              !.out = Return(FALSE)]
       ELSE IF first
       THEN IF balance.value >= call.requiredAmount
            THEN [call EXCEPT !.pc = "done", !.reads = Append(@, balance.value),
                              !.out = Return(TRUE)]
            ELSE [call EXCEPT !.pc = "minting", !.reads = Append(@, balance.value),
                              !.amount = MAX_MINT_AMOUNT]
       ELSE [call EXCEPT !.pc = "done", !.reads = Append(@, balance.value),
                         !.out = Return(balance.value >= call.requiredAmount)]
  /\ UNCHANGED <<cfg, ledgerUsed, rq, clock, fhe>>
  /\ FacUnchanged

\* part_004:86-93   mintConfidentialTokens is called on its own
MintCall(amount, hasAccount) ==
  /\ call = NoCall
  /\ call' = [fn |-> "balance", op |-> "mint", pc |-> "minting",
              requiredAmount |-> 0, amount |-> amount,
              hasAccount |-> hasAccount, reads |-> <<>>, mints |-> <<>>,
              mintFailed |-> FALSE, rereadFailed |-> FALSE, out |-> None]
  /\ UNCHANGED <<cfg, ledgerUsed, rq, clock, fhe>>
  /\ FacUnchanged

\* part_004:94-137 and 181-190, 203-206   the mint ends; within
\* ensureSufficientBalance its exception is caught and false returned
Mint(env) ==
  /\ call.fn = "balance" /\ call.pc = "minting"
  /\ LET m == mintConfidentialTokens(call.hasAccount, call.amount, env) IN
     call' =
       IF call.op = "mint"
       THEN [call EXCEPT !.pc = "done", !.mints = @ \o m.minted, !.out = m.out,
                         !.mintFailed = m.out.kind = "throw"]
       ELSE IF m.out.kind = "throw"
       THEN [call EXCEPT !.pc = "done", !.mints = @ \o m.minted,
                         !.mintFailed = TRUE, !.out = Return(FALSE)]
       ELSE [call EXCEPT !.pc = "reading", !.mints = @ \o m.minted]
  /\ UNCHANGED <<cfg, ledgerUsed, rq, clock, fhe>>
  /\ FacUnchanged

BalanceInit == CodecInit

BalanceNext ==
  \/ \E requiredAmount \in Amounts, hasAccount \in BOOLEAN :
       EnsureCall(requiredAmount, hasAccount)
  \/ \E env \in BalanceEnvs : BalanceRead(env)
  \/ \E amount \in Amounts, hasAccount \in BOOLEAN : MintCall(amount, hasAccount)
  \/ \E env \in MintEnvs : Mint(env)

\* one call of ensureSufficientBalance or of mintConfidentialTokens
BalanceSpec == BalanceInit /\ [][BalanceNext]_vars

\* the call of ensureSufficientBalance, ended or not
Ensuring == call.fn = "balance" /\ call.op = "ensure"

\* C40: ensureSufficientBalance returns true only if the last balance it
\* read is at least requiredAmount; it submits at most one mint, and only
\* when the first balance read was below requiredAmount; every mint amount
\* is at most MAX_MINT_AMOUNT; a failed mint or a failed second read gives
\* false, not an exception.
C40_EnsureBalanceMintsOnceCapped ==
  /\ call.fn = "balance" =>
       \A i \in 1..Len(call.mints) : call.mints[i] <= MAX_MINT_AMOUNT
  /\ Ensuring =>
       /\ call.out = Return(TRUE) =>
            /\ call.reads # <<>>
            /\ call.reads[Len(call.reads)] >= call.requiredAmount
       /\ Len(call.mints) <= 1
       /\ call.mints # <<>> =>
            /\ call.reads # <<>>
            /\ call.reads[1] < call.requiredAmount
       /\ (call.pc = "done" /\ (call.mintFailed \/ call.rereadFailed))
            => call.out = Return(FALSE)

\* a first read below the required amount, one mint of MAX_MINT_AMOUNT, a
\* second read that reaches the amount: true is returned
C40_Witness ==
  /\ Ensuring
  /\ call.pc = "done"
  /\ Len(call.reads) = 2
  /\ call.reads[1] < call.requiredAmount
  /\ call.mints = <<MAX_MINT_AMOUNT>>
  /\ call.out = Return(TRUE)
====
